---- MODULE Spec2Model ----
(***************************************************************************)
(* Model of the FitUploader synchronisation engine (src/fituploader.py):   *)
(* ConfigManager (settings store), FitFileManager (catalog and processed   *)
(* ledger), GarminUploader (upload dispatcher) and the FitUploaderApp      *)
(* handlers that drive them.                                               *)
(***************************************************************************)
EXTENDS Integers, Sequences, FiniteSets, TLC

VARIABLES
    disk,           \* source directory: file name -> file on disk
    config,         \* ConfigManager._config
    dirty,          \* ConfigManager._dirty
    timer,          \* the started, not yet expired auto-save Timers: time left of each
    waiting,        \* fired timer threads that have called save and wait for the lock
    save_pc,        \* position of the thread inside ConfigManager.save
    fs,             \* the settings file and its temporary file, by name
    crashed,        \* the process was killed
    cache,          \* FitFileManager._cache (list of FileInfo)
    cache_fresh,    \* (now - _cache_time).seconds < SCAN_CACHE_DURATION
    cache_age,      \* seconds from _cache_time to now (NoCacheTime: None)
    aliased,        \* file_infos holds the very FileInfo objects of the cache
    file_infos,     \* FitUploaderApp.file_infos
    tree,           \* rows of files_tree (file names, display order)
    selection,      \* selected rows of files_tree (positions, 1-based)
    menu_item,      \* row the context menu was opened on (0: none)
    ui_queue,       \* FitUploaderApp.ui_queue
    is_processing,  \* FitUploaderApp.is_processing
    connected,      \* GarminAuthManager._is_connected
    up_pc,          \* position of the upload thread
    selected_files, \* start_upload: the paths handed to the upload thread
    batch,          \* upload_files: the list of paths, one task each
    task,           \* per task: state, attempt, result of _upload_file_with_retry
    results,        \* upload_files: results mapping (task index -> success)
    stats,          \* GarminUploader._upload_stats
    renames,        \* number of renames done on disk so far
    marked,         \* history: tasks of the batch mark_file_processed was called for
    since_set,      \* history: ticks since the last scheduling of the auto-save
    file_before,    \* history: settings file when the current save began
    dump_doc,       \* history: document serialised by the current save
    fit_src,        \* cleanup_fit_file: the records of the source file
    fit_dst,        \* cleanup_fit_file: the file at new_file_path
    fit_ret,        \* cleanup_fit_file: the value returned ("none": not called)
    fit_fault,      \* history: what went wrong during cleanup_fit_file
    legacy,         \* FitUploader.py: the backup directory, the process
                    \* thread of upload_files and what became of each file
    up_hist,        \* history: per task, the passes of the retry loop so far
    progress,       \* history: the percentages upload_files gave its callback
    disk2,          \* second source directory: file name -> file on disk
    dirs,           \* the producer directories that exist
    locator,        \* FitFileManager: lru_cache of _get_mywhoosh_paths,
                    \* _sources_cache and whether it is younger than 60 s
    sources_label,  \* FitUploaderApp.sources_label: the sources displayed
    scan_timer,     \* FitUploaderApp._auto_scan_timer: "armed", "fired" while
                    \* its thread runs _auto_scan_wrapper, "none"
    close_pc,       \* position of the user interface thread in on_closing
    close_doc,      \* history: the settings in memory when on_closing saved
    token,          \* AppConfig.TOKENS_PATH exists: a session saved by garth
    mk,             \* the thread inside FitFileManager.mark_file_processed:
                    \* its position and its file_info
    lastOp          \* history: the last operation and its argument

vars == <<disk, config, dirty, timer, waiting, save_pc, fs,
          crashed, cache, cache_fresh, cache_age, aliased, file_infos, tree,
          selection,
          menu_item, ui_queue, is_processing, connected, up_pc, selected_files,
          batch, task,
          results, stats, renames, marked, since_set, file_before, dump_doc,
          fit_src, fit_dst, fit_ret, fit_fault, legacy, up_hist, progress, disk2,
          dirs,
          locator, sources_label, scan_timer, close_pc, close_doc, token, mk,
          lastOp>>

storeVars == <<config, dirty, timer>>
saveVars  == <<waiting, save_pc, fs, crashed, since_set,
               file_before, dump_doc>>
scanVars  == <<cache, cache_fresh, aliased, file_infos>>
uiVars    == <<tree, selection, menu_item, ui_queue>>
fitVars   == <<fit_src, fit_dst, fit_ret, fit_fault, legacy>>
histVars  == <<up_hist, progress>>
shutVars  == <<scan_timer, close_pc, close_doc, token>>
appVars   == <<disk2, dirs, locator, sources_label, cache_age, shutVars, mk>>
upVars    == <<is_processing, up_pc, selected_files, batch, task, results, stats,
               marked>>

----------------------------------------------------------------------------
(* Program constants *)

MAX_RETRY_ATTEMPTS == 3
MAX_CONCURRENT_UPLOADS == 2
SCAN_CACHE_DURATION == 30
AutoSaveDelay == 2

(* Bounds of the model *)

MaxRenames == 1
MaxQueue == 1
MaxWaiting == 1
CpuCount == 2
\* writes json.dump needs to put the whole document into the file
NumChunks == 2
\* sample records before the first session of a source file
MaxSamples == 4
\* whole days the clock runs on after a scan
MaxDays == 1

----------------------------------------------------------------------------
(* Files, names, contents *)

NameA == <<"a">>
NameB == <<"b">>
NameC == <<"c">>
Names == {NameA, NameB, NameC}

Contents == {"c0", "c1", "c2", "c3"}

\* st_size of a file with the given content; "c0" is the zero-length file
SizeOf(c) == CASE c = "c0" -> 0 [] c = "c1" -> 1 [] c = "c2" -> 1 [] OTHER -> 12

\* sha256(content).hexdigest()[:16]
Sha(c) == CASE c = "c0" -> "h0" [] c = "c1" -> "h1" [] c = "c2" -> "h2" [] OTHER -> "h3"

\* values of datetime.now() seen by the model
Timestamps == {1}

NoFile == [exists |-> FALSE, content |-> "c0", readable |-> FALSE, mtime |-> 0]

SrcPath(n) == [dir |-> "src", name |-> n]
BakPath(n) == [dir |-> "bak", name |-> n]

\* FileInfo._calculate_hash: "" when the file cannot be read
_calculate_hash(f) == IF f.readable THEN Sha(f.content) ELSE ""

\* str(int) for the size part of the ledger key
DigitChar(d) == CASE d = 0 -> "0" [] d = 1 -> "1" [] d = 2 -> "2" [] d = 3 -> "3"
                  [] d = 4 -> "4" [] d = 5 -> "5" [] d = 6 -> "6" [] d = 7 -> "7"
                  [] d = 8 -> "8" [] OTHER -> "9"

RECURSIVE Digits(_)
Digits(n) == IF n < 10 THEN <<DigitChar(n)>>
             ELSE Digits(n \div 10) \o <<DigitChar(n % 10)>>

\* f"{file_info.name}_{file_info.size_bytes}"
FileKey(name, size_bytes) == name \o <<"_">> \o Digits(size_bytes)

----------------------------------------------------------------------------
(* ConfigManager: get, set, _schedule_auto_save *)

ImportantKeys == {"username", "backup_path", "processed_files"}

\* a store is the in-memory part of the ConfigManager
Store(c, d, t) == [config |-> c, dirty |-> d, timer |-> t]

NoTimer == <<>>

\* self._auto_save_timer.cancel(): the attribute holds the Timer started last
Cancel(t) == IF t # <<>> THEN SubSeq(t, 1, Len(t) - 1) ELSE t

config_get(c, key, default) == IF key \in DOMAIN c THEN c[key] ELSE default

\* variant: the earlier timer is left running
_schedule_auto_save_NoCancel(s) ==
    [s EXCEPT !.timer = Append(s.timer, AutoSaveDelay)]

\* cancels the pending timer, if any, and starts a new one
_schedule_auto_save(s) ==
    [s EXCEPT !.timer = Append(Cancel(s.timer), AutoSaveDelay)]

\* the comparison of ConfigManager.set
SetChanges(s, key, value) ==
    ~(key \in DOMAIN s.config /\ s.config[key] = value)

config_set(s, key, value) ==
    IF SetChanges(s, key, value)
    THEN LET s1 == [s EXCEPT !.config = [k \in DOMAIN s.config \cup {key} |->
                                            IF k = key THEN value ELSE s.config[k]],
                             !.dirty = TRUE]
         IN  IF key \in ImportantKeys THEN _schedule_auto_save(s1) ELSE s1
    ELSE s

----------------------------------------------------------------------------
(* FitFileManager: the processed ledger *)

LegacyEntry == [isdict |-> FALSE]

\* variant: the fingerprint is compared even when it is empty
is_file_processed_NoGuard(processed_info, file_info) ==
    IF \E key \in DOMAIN processed_info :
             /\ processed_info[key].isdict
             /\ processed_info[key].hash = file_info.file_hash
    THEN TRUE
    ELSE FileKey(file_info.name, file_info.size_bytes) \in DOMAIN processed_info

\* is_file_processed, on the ledger mapping
is_file_processed(processed_info, file_info) ==
    IF file_info.file_hash # ""
       /\ \E key \in DOMAIN processed_info :
             /\ processed_info[key].isdict
             /\ processed_info[key].hash = file_info.file_hash
    THEN TRUE
    ELSE FileKey(file_info.name, file_info.size_bytes) \in DOMAIN processed_info

\* variant: the entry is written without the fingerprint
LedgerPut_NoHash(processed_info, file_info, ts) ==
    LET file_key == FileKey(file_info.name, file_info.size_bytes)
    IN  [k \in DOMAIN processed_info \cup {file_key} |->
            IF k = file_key
            THEN [isdict |-> TRUE, timestamp |-> ts, hash |-> "",
                  size |-> file_info.size_bytes, path |-> file_info.path]
            ELSE processed_info[k]]

\* variant: the time of the call is part of the key
LedgerPut_TimeKey(processed_info, file_info, ts) ==
    LET file_key == FileKey(file_info.name, file_info.size_bytes) \o Digits(ts)
    IN  [k \in DOMAIN processed_info \cup {file_key} |->
            IF k = file_key
            THEN [isdict |-> TRUE, timestamp |-> ts, hash |-> file_info.file_hash,
                  size |-> file_info.size_bytes, path |-> file_info.path]
            ELSE processed_info[k]]

\* processed_info[file_key] = {...}: the assignment into the ledger dict
LedgerPut(processed_info, file_info, ts) ==
    LET file_key == FileKey(file_info.name, file_info.size_bytes)
    IN  [k \in DOMAIN processed_info \cup {file_key} |->
            IF k = file_key
            THEN [isdict |-> TRUE, timestamp |-> ts, hash |-> file_info.file_hash,
                  size |-> file_info.size_bytes, path |-> file_info.path]
            ELSE processed_info[k]]

\* mark_file_processed: the dict returned by get is the dict held by the
\* store, so the assignment changes the stored ledger in place and set is
\* then called with the stored object itself
mark_file_processed(s, file_info, ts) ==
    LET processed_info == config_get(s.config, "processed_files", <<>>)
        mutated == LedgerPut(processed_info, file_info, ts)
        s1 == [s EXCEPT !.config.processed_files = mutated]
    IN  config_set(s1, "processed_files", mutated)

Ledger == config["processed_files"]


CurStore == Store(config, dirty, timer)

ApplyStore(s) ==
    /\ config' = s.config
    /\ dirty' = s.dirty
    /\ timer' = s.timer

Op(name, info, key, changed) ==
    [op |-> name, info |-> info, key |-> key, changed |-> changed]

NoInfo == [name |-> <<>>, path |-> SrcPath(<<>>), file_hash |-> "", size_bytes |-> 0,
           processed |-> FALSE, modified_time |-> 0]

\* an operation no property refers to
OtherOp == Op("other", NoInfo, "", FALSE)

----------------------------------------------------------------------------
(* FitFileManager: the catalog *)

\* no thread is inside mark_file_processed
NoMark == [pc |-> "none", info |-> NoInfo, ts |-> 0]

\* the application is running: __init__ has armed the auto-scan timer
\* (auto_scan_var is on), on_closing was not called, nothing is being
\* marked and a token is saved exactly when a login has connected
AppRunning ==
    /\ scan_timer = "armed"
    /\ close_pc = "running"
    /\ close_doc = <<>>
    /\ token = connected
    /\ mk = NoMark

\* _cache_time is None
NoCacheTime == 0 - 1

SecondsPerDay == 24 * 60 * 60

\* "self._cache_time and (now - self._cache_time).seconds <
\* AppConfig.SCAN_CACHE_DURATION": timedelta.seconds is the seconds part of
\* the difference, without its days
CacheTest(age) == age # NoCacheTime /\ age % SecondsPerDay < SCAN_CACHE_DURATION

\* a directory without files
NoDirectory == [n \in Names |-> NoFile]

\* the files of a producer directory
DirOf(source) == IF source = "src" THEN disk ELSE disk2

\* state of the locator: the paths memoised by lru_cache ("none": not yet
\* called), _sources_cache ("none": None) and whether
\* (now - _sources_cache_time).seconds < 60
Located(paths) == [memo |-> paths, cache |-> paths, fresh |-> TRUE]

NotLocated == [memo |-> "none", cache |-> "none", fresh |-> FALSE]

\* one producer directory, located at startup and shown in sources_label
OneSource ==
    /\ disk2 = NoDirectory
    /\ dirs = {"src"}
    /\ locator = Located(<<"src">>)
    /\ sources_label = <<"src">>

\* _get_mywhoosh_paths without its lru_cache: the producer directories
\* found on disk, in the order of the probe
Probe(existing) ==
    (IF "src" \in existing THEN <<"src">> ELSE <<>>)
       \o (IF "src2" \in existing THEN <<"src2">> ELSE <<>>)

\* _get_mywhoosh_paths: lru_cache returns the result of the first call
_get_mywhoosh_paths(loc, existing) ==
    IF loc.memo = "none" THEN Probe(existing) ELSE loc.memo

\* get_available_sources: the cached sources while the cache is not empty
\* and its age passes the test, otherwise the paths of
\* _get_mywhoosh_paths, which become the cache
get_available_sources(loc, existing) ==
    IF loc.cache # "none" /\ loc.cache # <<>> /\ loc.fresh
    THEN [ret |-> loc.cache, loc |-> loc]
    ELSE LET paths == _get_mywhoosh_paths(loc, existing)
         IN  [ret |-> paths, loc |-> Located(paths)]

\* get_fit_files: nothing for a directory that is gone, else the files of
\* positive size
get_fit_files(source) ==
    IF source \notin dirs THEN {}
    ELSE {n \in Names : DirOf(source)[n].exists
                           /\ SizeOf(DirOf(source)[n].content) > 0}

\* fit_files.sort(key=st_mtime, reverse=True)
RECURSIVE SortByMtime(_, _)
SortByMtime(source, S) ==
    IF S = {} THEN <<>>
    ELSE LET n == CHOOSE x \in S :
                     \A y \in S : DirOf(source)[y].mtime <= DirOf(source)[x].mtime
         IN  <<n>> \o SortByMtime(source, S \ {n})

MakeInfo(source, n, processed_info) ==
    LET f == DirOf(source)[n]
        base == [name |-> n, path |-> [dir |-> source, name |-> n],
                 file_hash |-> _calculate_hash(f),
                 size_bytes |-> SizeOf(f.content),
                 processed |-> FALSE,
                 modified_time |-> f.mtime]
    IN  [base EXCEPT !.processed = is_file_processed(processed_info, base)]

\* the body of "for source_name, source_dir in sources.items()"
ScanSource(source, processed_info) ==
    LET fit_files == SortByMtime(source, get_fit_files(source))
    IN  [i \in 1..Len(fit_files) |-> MakeInfo(source, fit_files[i], processed_info)]

\* the list built by the loop over the sources: the files of each source,
\* newest first, one source after the other
RECURSIVE ScanSources(_, _)
ScanSources(sources, processed_info) ==
    IF sources = <<>> THEN <<>>
    ELSE ScanSource(Head(sources), processed_info)
            \o ScanSources(Tail(sources), processed_info)

ScanDisk(processed_info) ==
    ScanSources(get_available_sources(locator, dirs).ret, processed_info)

\* scan_files_async: the cached list while the cache is fresh and not
\* empty, a new scan otherwise; the result is the cache afterwards
scan_files_async(processed_info) ==
    IF cache_fresh /\ cache # <<>> THEN cache ELSE ScanDisk(processed_info)

ScanHitsCache == cache_fresh /\ cache # <<>>

\* the locator after scan_files_async: a scan that does not return the
\* cached list calls get_available_sources
AfterScan == IF ScanHitsCache THEN locator
             ELSE get_available_sources(locator, dirs).loc

\* _cache_time after scan_files_async: "self._cache_time = now" unless the
\* cached list was returned
AgeAfterScan == IF ScanHitsCache THEN cache_age ELSE 0

\* position of the first element of seq that satisfies the test, 0 if none
FirstByName(seq, n) ==
    IF \E i \in 1..Len(seq) : seq[i].name = n
    THEN CHOOSE i \in 1..Len(seq) :
            seq[i].name = n /\ \A j \in 1..(i-1) : seq[j].name # n
    ELSE 0

FirstByPath(seq, p) ==
    IF \E i \in 1..Len(seq) : seq[i].path = p
    THEN CHOOSE i \in 1..Len(seq) :
            seq[i].path = p /\ \A j \in 1..(i-1) : seq[j].path # p
    ELSE 0

\* sorted(file_infos, key=modified_time, reverse=True): stable
RECURSIVE InsertDesc(_, _)
InsertDesc(sorted, x) ==
    IF sorted = <<>> THEN <<x>>
    ELSE IF Head(sorted).modified_time >= x.modified_time
         THEN <<Head(sorted)>> \o InsertDesc(Tail(sorted), x)
         ELSE <<x>> \o sorted

RECURSIVE SortedDesc(_)
SortedDesc(seq) ==
    IF seq = <<>> THEN <<>>
    ELSE InsertDesc(SortedDesc(SubSeq(seq, 1, Len(seq) - 1)), seq[Len(seq)])

\* filename in key
IsSubstring(a, b) ==
    \E i \in 0..(Len(b) - Len(a)) : SubSeq(b, i + 1, i + Len(a)) = a

Alive == ~crashed
LockFree == save_pc = "idle"

----------------------------------------------------------------------------
(* FitUploaderApp: scan and tree handlers *)

\* refresh_sources: displays what get_available_sources returns
refresh_sources ==
    /\ Alive
    /\ LET r == get_available_sources(locator, dirs)
       IN  /\ locator' = r.loc
           /\ sources_label' = r.ret
    /\ lastOp' = Op("refresh_sources", NoInfo, "", FALSE)
    /\ UNCHANGED <<disk, storeVars, saveVars, scanVars, uiVars, connected, upVars,
                   renames, disk2, dirs, cache_age, shutVars, mk>>
    /\ UNCHANGED fitVars
    /\ UNCHANGED histVars

\* the sources cache becomes older than 60 seconds
SourcesExpire ==
    /\ Alive
    /\ locator.fresh
    /\ locator' = [locator EXCEPT !.fresh = FALSE]
    /\ lastOp' = OtherOp
    /\ UNCHANGED <<disk, storeVars, saveVars, scanVars, uiVars, connected, upVars,
                   renames, disk2, dirs, sources_label, cache_age, shutVars, mk>>
    /\ UNCHANGED fitVars
    /\ UNCHANGED histVars

\* a producer directory is created or removed (the producer is installed
\* or uninstalled)
ToggleDirectory(d) ==
    /\ Alive
    /\ dirs' = IF d \in dirs THEN dirs \ {d} ELSE dirs \cup {d}
    /\ lastOp' = OtherOp
    /\ UNCHANGED <<disk, storeVars, saveVars, scanVars, uiVars, connected, upVars,
                   renames, disk2, locator, sources_label, cache_age, shutVars, mk>>
    /\ UNCHANGED fitVars
    /\ UNCHANGED histVars

\* _scan_thread
ScanThread ==
    /\ Alive
    /\ Len(ui_queue) < MaxQueue
    /\ LockFree
    /\ LET found == scan_files_async(Ledger)
       IN  /\ file_infos' = found
           /\ cache' = found
    /\ cache_fresh' = TRUE
    /\ cache_age' = AgeAfterScan
    /\ aliased' = TRUE
    /\ ui_queue' = Append(ui_queue, "update_files_ui")
    /\ lastOp' = OtherOp
    /\ UNCHANGED <<disk, storeVars, saveVars, tree, selection, menu_item,
                   connected, upVars, renames>>
    /\ UNCHANGED fitVars
    /\ UNCHANGED histVars
    /\ locator' = AfterScan
    /\ UNCHANGED <<disk2, dirs, sources_label, shutVars, mk>>

\* the scan cache becomes older than SCAN_CACHE_DURATION
CacheExpire ==
    /\ Alive
    /\ cache_fresh
    /\ cache_age < SCAN_CACHE_DURATION
    /\ cache_fresh' = FALSE
    /\ cache_age' = SCAN_CACHE_DURATION
    /\ lastOp' = OtherOp
    /\ UNCHANGED <<disk, storeVars, saveVars, cache, aliased, file_infos, uiVars,
                   connected, upVars, renames>>
    /\ UNCHANGED fitVars
    /\ UNCHANGED histVars
    /\ UNCHANGED <<disk2, dirs, locator, sources_label, shutVars, mk>>

\* the readings of now - _cache_time, in seconds, at which the clock is
\* looked at: around the cache duration, on each of the following days
AgeSamples ==
    {d * SecondsPerDay + s :
        d \in 0..MaxDays,
        s \in {SCAN_CACHE_DURATION - 1, SCAN_CACHE_DURATION,
               SecondsPerDay - 1}}

\* time passes: now - _cache_time grows to t
Elapse(t) ==
    /\ Alive
    /\ cache_age # NoCacheTime
    /\ t > cache_age
    /\ cache_age' = t
    /\ cache_fresh' = CacheTest(t)
    /\ lastOp' = OtherOp
    /\ UNCHANGED <<disk, storeVars, saveVars, cache, aliased, file_infos, uiVars,
                   connected, upVars, renames>>
    /\ UNCHANGED fitVars
    /\ UNCHANGED histVars
    /\ UNCHANGED <<disk2, dirs, locator, sources_label, shutVars, mk>>

\* _update_files_ui
UpdateFilesUi ==
    /\ \E auto_select \in BOOLEAN :
         LET shown == SortedDesc(file_infos)
         IN  /\ tree' = [i \in 1..Len(shown) |-> shown[i].name]
             /\ selection' = IF auto_select
                             THEN {i \in 1..Len(shown) : ~shown[i].processed}
                             ELSE {}
    /\ menu_item' = 0
    /\ lastOp' = OtherOp
    /\ UNCHANGED <<disk, storeVars, saveVars, scanVars, connected, upVars, renames>>
    /\ UNCHANGED fitVars
    /\ UNCHANGED histVars
    /\ UNCHANGED appVars

\* on_tree_right_click
on_tree_right_click(row) ==
    /\ Alive
    /\ row \in 1..Len(tree)
    /\ selection' = {row}
    /\ menu_item' = row
    /\ lastOp' = OtherOp
    /\ UNCHANGED <<disk, storeVars, saveVars, scanVars, tree, ui_queue,
                   connected, upVars, renames>>
    /\ UNCHANGED fitVars
    /\ UNCHANGED histVars
    /\ UNCHANGED appVars

\* info.processed = value on the FileInfo object, which the cache shares
\* when file_infos came from the scan that filled the cache
SetProcessedFlag(seq, i, value) == [seq EXCEPT ![i].processed = value]

\* mark_as_processed
mark_as_processed ==
    /\ Alive
    /\ LockFree
    /\ menu_item # 0
    /\ menu_item' = 0
    /\ LET filename == tree[menu_item]
           i == FirstByName(file_infos, filename)
       IN  IF i = 0
           THEN /\ UNCHANGED <<storeVars, scanVars>>
                /\ lastOp' = OtherOp
           ELSE \E ts \in Timestamps :
                  LET info == [file_infos[i] EXCEPT !.processed = TRUE]
                  IN  /\ file_infos' = SetProcessedFlag(file_infos, i, TRUE)
                      /\ cache' = IF aliased THEN SetProcessedFlag(cache, i, TRUE)
                                  ELSE cache
                      /\ ApplyStore(mark_file_processed(CurStore, info, ts))
                      /\ lastOp' = Op("mark_as_processed", info, "processed_files",
                                      LedgerPut(Ledger, info, ts) # Ledger)
                      /\ UNCHANGED <<cache_fresh, aliased>>
    /\ UNCHANGED <<disk, saveVars, tree, selection, ui_queue, connected, upVars,
                   renames>>
    /\ UNCHANGED fitVars
    /\ UNCHANGED histVars
    /\ UNCHANGED appVars

\* the entries mark_as_new removes
KeysToRemove(processed_files, info, filename) ==
    {key \in DOMAIN processed_files :
        IF processed_files[key].isdict
        THEN (processed_files[key].hash = info.file_hash /\ info.file_hash # "")
             \/ IsSubstring(filename, key)
        ELSE IsSubstring(filename, key)}

\* mark_as_new: pops the keys from the stored dict and calls set with it
mark_as_new ==
    /\ Alive
    /\ LockFree
    /\ menu_item # 0
    /\ menu_item' = 0
    /\ LET filename == tree[menu_item]
           i == FirstByName(file_infos, filename)
       IN  IF i = 0
           THEN /\ UNCHANGED <<storeVars, scanVars>>
                /\ lastOp' = OtherOp
           ELSE LET info == [file_infos[i] EXCEPT !.processed = FALSE]
                    processed_files == config_get(config, "processed_files", <<>>)
                    gone == KeysToRemove(processed_files, info, filename)
                    mutated == [k \in DOMAIN processed_files \ gone |->
                                   processed_files[k]]
                    s1 == [CurStore EXCEPT !.config.processed_files = mutated]
                IN  /\ file_infos' = SetProcessedFlag(file_infos, i, FALSE)
                    /\ cache' = IF aliased THEN SetProcessedFlag(cache, i, FALSE)
                                ELSE cache
                    /\ ApplyStore(config_set(s1, "processed_files", mutated))
                    /\ lastOp' = Op("mark_as_new", info, "processed_files", gone # {})
                    /\ UNCHANGED <<cache_fresh, aliased>>
    /\ UNCHANGED <<disk, saveVars, tree, selection, ui_queue, connected, upVars,
                   renames>>
    /\ UNCHANGED fitVars
    /\ UNCHANGED histVars
    /\ UNCHANGED appVars

\* select_all_files
select_all_files ==
    /\ Alive
    /\ selection # 1..Len(tree)
    /\ selection' = 1..Len(tree)
    /\ lastOp' = OtherOp
    /\ UNCHANGED <<disk, storeVars, saveVars, scanVars, tree, menu_item, ui_queue,
                   connected, upVars, renames>>
    /\ UNCHANGED fitVars
    /\ UNCHANGED histVars
    /\ UNCHANGED appVars

\* a ConfigManager.set made by a UI handler; the history variable since_set
\* restarts when the call schedules the auto-save
UiSet(key, value, opname) ==
    /\ Alive
    /\ LockFree
    /\ ApplyStore(config_set(CurStore, key, value))
    /\ since_set' = IF SetChanges(CurStore, key, value) /\ key \in ImportantKeys
                    THEN 0 ELSE since_set
    /\ lastOp' = Op(opname, NoInfo, key, SetChanges(CurStore, key, value))
    /\ UNCHANGED <<disk, waiting, save_pc, fs, crashed,
                   file_before, dump_doc, scanVars, uiVars, connected, upVars,
                   renames>>
    /\ UNCHANGED fitVars
    /\ UNCHANGED histVars
    /\ UNCHANGED appVars

\* browse_backup_folder with a writable directory chosen
browse_backup_folder == UiSet("backup_path", "bak", "set")

\* change_language
change_language == \E code \in {"fr"} : UiSet("language", code, "set")

\* cleanup_processed_files (the button is disabled while is_processing);
\* the scan it starts is ScanThread
cleanup_processed_files ==
    /\ ~is_processing
    /\ UiSet("processed_files", <<>>, "cleanup")


----------------------------------------------------------------------------
(* ConfigManager.save, run by the auto-save timer threads *)

\* a file: the JSON value its text stands for (kind, doc) and how much of
\* the text is there; a text cut short is not parseable
AbsentFile == [exists |-> FALSE, kind |-> "object", doc |-> <<>>, chunks |-> 0]

\* AppConfig.CONFIG_FILE
CONFIG_FILE == "json"

\* variant: the document is written over the settings file itself
temp_file_InPlace == CONFIG_FILE

\* temp_file = CONFIG_FILE.with_suffix('.tmp')
temp_file == "tmp"

\* time passes while an auto-save timer runs
Tick ==
    /\ Alive
    /\ timer # <<>>
    /\ \A i \in 1..Len(timer) : timer[i] > 0
    /\ timer' = [i \in 1..Len(timer) |-> timer[i] - 1]
    /\ since_set' = since_set + 1
    /\ lastOp' = OtherOp
    /\ UNCHANGED <<disk, config, dirty, waiting, save_pc, fs, crashed, file_before,
                   dump_doc, scanVars, uiVars, connected, upVars, renames>>
    /\ UNCHANGED fitVars
    /\ UNCHANGED histVars
    /\ UNCHANGED appVars

\* a timer expires: its thread calls self.save and waits for the lock
TimerFire(i) ==
    /\ Alive
    /\ i \in 1..Len(timer)
    /\ timer[i] = 0
    /\ waiting < MaxWaiting
    /\ timer' = SubSeq(timer, 1, i - 1) \o SubSeq(timer, i + 1, Len(timer))
    /\ waiting' = waiting + 1
    /\ lastOp' = Op("timer_fire", NoInfo, "", FALSE)
    /\ UNCHANGED <<disk, config, dirty, save_pc, fs, crashed, since_set,
                   file_before, dump_doc, scanVars, uiVars, connected, upVars,
                   renames>>
    /\ UNCHANGED fitVars
    /\ UNCHANGED histVars
    /\ UNCHANGED appVars

\* save(force=False): takes the lock; returns at once when not dirty
SaveBegin ==
    /\ Alive
    /\ LockFree
    /\ waiting > 0
    /\ waiting' = waiting - 1
    /\ IF ~dirty
       THEN /\ lastOp' = Op("save_noop", NoInfo, "", FALSE)
            /\ UNCHANGED <<save_pc, file_before>>
       ELSE /\ save_pc' = "open"
            /\ file_before' = fs[CONFIG_FILE]
            /\ lastOp' = OtherOp
    /\ UNCHANGED <<disk, storeVars, fs, crashed, since_set, dump_doc, scanVars,
                   uiVars, connected, upVars, renames>>
    /\ UNCHANGED fitVars
    /\ UNCHANGED histVars
    /\ UNCHANGED appVars

\* temp_file.open("w"): creates or truncates the temporary file
SaveOpen ==
    /\ Alive
    /\ save_pc = "open"
    /\ fs' = [fs EXCEPT ![temp_file] = [exists |-> TRUE, kind |-> "object", doc |-> <<>>, chunks |-> 0]]
    /\ save_pc' = "dump"
    /\ lastOp' = OtherOp
    /\ UNCHANGED <<disk, storeVars, waiting, crashed, since_set, file_before,
                   dump_doc, scanVars, uiVars, connected, upVars, renames>>
    /\ UNCHANGED fitVars
    /\ UNCHANGED histVars
    /\ UNCHANGED appVars

\* json.dump writes the document piece by piece; the file is closed after
\* the last piece
SaveDump ==
    /\ Alive
    /\ save_pc = "dump"
    /\ fs' = [fs EXCEPT ![temp_file] = [exists |-> TRUE, kind |-> "object",
                                        doc |-> config,
                                        chunks |-> fs[temp_file].chunks + 1]]
    /\ dump_doc' = config
    /\ save_pc' = IF fs[temp_file].chunks + 1 = NumChunks THEN "replace" ELSE "dump"
    /\ lastOp' = OtherOp
    /\ UNCHANGED <<disk, storeVars, waiting, crashed, since_set, file_before,
                   scanVars, uiVars, connected, upVars, renames>>
    /\ UNCHANGED fitVars
    /\ UNCHANGED histVars
    /\ UNCHANGED appVars

\* temp_file.replace(CONFIG_FILE): atomic rename
SaveReplace ==
    /\ Alive
    /\ save_pc = "replace"
    /\ fs' = IF temp_file = CONFIG_FILE THEN fs
             ELSE [fs EXCEPT ![CONFIG_FILE] = fs[temp_file], ![temp_file] = AbsentFile]
    /\ save_pc' = "replaced"
    /\ lastOp' = OtherOp
    /\ UNCHANGED <<disk, storeVars, waiting, crashed, since_set, file_before,
                   dump_doc, scanVars, uiVars, connected, upVars, renames>>
    /\ UNCHANGED fitVars
    /\ UNCHANGED histVars
    /\ UNCHANGED appVars

\* self._dirty = False, and the lock is released
SaveEnd ==
    /\ Alive
    /\ save_pc = "replaced"
    /\ dirty' = FALSE
    /\ save_pc' = "idle"
    /\ lastOp' = Op("save_ok", NoInfo, "", FALSE)
    /\ UNCHANGED <<disk, config, timer, waiting, fs, crashed, since_set,
                   file_before, dump_doc, scanVars, uiVars, connected, upVars,
                   renames>>
    /\ UNCHANGED fitVars
    /\ UNCHANGED histVars
    /\ UNCHANGED appVars

\* except Exception: an OS error while opening, writing or renaming
SaveFail ==
    /\ Alive
    /\ save_pc \in {"open", "dump", "replace"}
    /\ save_pc' = "idle"
    /\ lastOp' = Op("save_fail", NoInfo, "", FALSE)
    /\ UNCHANGED <<disk, storeVars, waiting, fs, crashed, since_set, file_before,
                   dump_doc, scanVars, uiVars, connected, upVars, renames>>
    /\ UNCHANGED fitVars
    /\ UNCHANGED histVars
    /\ UNCHANGED appVars

\* the process is killed at an arbitrary point
Crash ==
    /\ Alive
    /\ crashed' = TRUE
    /\ lastOp' = OtherOp
    /\ UNCHANGED <<disk, storeVars, waiting, save_pc, fs, since_set, file_before,
                   dump_doc, scanVars, uiVars, connected, upVars, renames>>
    /\ UNCHANGED fitVars
    /\ UNCHANGED histVars
    /\ UNCHANGED appVars


----------------------------------------------------------------------------
(* ConfigManager.load and _validate_config.  Values carry their JSON type:
   [t |-> type, v |-> text of the value] *)

JStr(v) == [t |-> "str", v |-> v]
JInt(v) == [t |-> "int", v |-> v]
JBool(v) == [t |-> "bool", v |-> v]
JDict == [t |-> "dict", v |-> "{}"]
JNull == [t |-> "null", v |-> "null"]

\* _get_default_config
_get_default_config ==
    [key \in {"username", "backup_path", "processed_files", "auto_select_new",
              "max_concurrent_uploads", "auto_save_interval", "ui_theme",
              "log_level"} |->
        CASE key = "username" -> JStr("")
          [] key = "backup_path" -> JStr("")
          [] key = "processed_files" -> JDict
          [] key = "auto_select_new" -> JBool("true")
          [] key = "max_concurrent_uploads" -> JInt("2")
          [] key = "auto_save_interval" -> JInt("30")
          [] key = "ui_theme" -> JStr("default")
          [] OTHER -> JStr("INFO")]

\* isinstance(value, expected_type): bool is a subclass of int
isinstance(value, expected_type) ==
    \/ value.t = expected_type
    \/ value.t = "bool" /\ expected_type = "int"

\* _validate_config, for a loaded JSON object
_validate_config(loaded_config) ==
    LET default_config == _get_default_config
    IN  [key \in DOMAIN default_config |->
            IF /\ key \in DOMAIN loaded_config
               /\ isinstance(loaded_config[key], default_config[key].t)
            THEN loaded_config[key]
            ELSE default_config[key]]

\* json.load(f) on the open settings file: the exception it raises, if any
JsonLoadError(f) ==
    CASE f.kind = "binary" -> "UnicodeDecodeError"
      [] f.chunks < NumChunks -> "JSONDecodeError"
      [] OTHER -> "none"

\* keys and values of the settings files that load is run on
LoadKeys == {"username", "processed_files", "auto_select_new",
             "max_concurrent_uploads", "language"}
LoadValues == {JStr("u"), JInt("5"), JBool("true"), JDict, JNull}

RECURSIVE Objects(_)
\* the JSON objects over a set of keys, each key present or not
Objects(keys) ==
    IF keys = {} THEN {<<>>}
    ELSE LET k == CHOOSE x \in keys : TRUE
             rest == Objects(keys \ {k})
         IN  rest \cup {[x \in DOMAIN o \cup {k} |-> IF x = k THEN v ELSE o[x]] :
                           o \in rest, v \in LoadValues}

\* settings files found at start: none, a text cut short, bytes that are no
\* UTF-8, a JSON array or scalar, a JSON object
LoadFiles ==
    {AbsentFile}
    \cup {[exists |-> TRUE, kind |-> "object", doc |-> <<>>, chunks |-> 0]}
    \cup {[exists |-> TRUE, kind |-> k, doc |-> <<>>, chunks |-> NumChunks] :
             k \in {"binary", "array", "scalar"}}
    \cup {[exists |-> TRUE, kind |-> "object", doc |-> o, chunks |-> NumChunks] :
             o \in Objects(LoadKeys)}

\* the body of ConfigManager.load on the settings file f: the configuration
\* it leaves, whether the file was validated, and whether it raised.  Only
\* JSONDecodeError and OSError are caught: .items() of a value that is no
\* object and a decoding error leave load with an exception
Loaded(f) ==
    IF ~f.exists
    THEN [config |-> _get_default_config, validated |-> FALSE, raised |-> FALSE]
    ELSE IF JsonLoadError(f) = "JSONDecodeError"
    THEN [config |-> _get_default_config, validated |-> FALSE, raised |-> FALSE]
    ELSE IF JsonLoadError(f) = "none" /\ f.kind = "object"
    THEN [config |-> _validate_config(f.doc), validated |-> TRUE, raised |-> FALSE]
    ELSE [config |-> <<>>, validated |-> FALSE, raised |-> TRUE]

\* ConfigManager.load, as called by the constructor; an exception leaves
\* the constructor as well
load ==
    /\ lastOp.op = "init"
    /\ LET r == Loaded(fs[CONFIG_FILE])
       IN  IF r.raised
           THEN /\ crashed' = TRUE
                /\ lastOp' = Op("load_raised", NoInfo, "", FALSE)
                /\ UNCHANGED config
           ELSE /\ config' = r.config
                /\ lastOp' = Op("load", NoInfo, "", r.validated)
                /\ UNCHANGED crashed
    /\ UNCHANGED <<disk, dirty, timer, waiting, save_pc, fs, since_set,
                   file_before, dump_doc, scanVars, uiVars, connected, upVars,
                   renames>>
    /\ UNCHANGED fitVars
    /\ UNCHANGED histVars
    /\ UNCHANGED appVars

\* the settings the application stores with set, and values it stores
StoredKeys == {"email", "backup_path", "processed_files", "language", "last_auth"}

StoredValue(key) ==
    CASE key = "email" -> JStr("me@example.org")
      [] key = "backup_path" -> JStr("bak")
      [] key = "processed_files" -> [t |-> "dict", v |-> "{a_1: {...}}"]
      [] key = "language" -> JStr("fr")
      [] OTHER -> JStr("2026-01-01T00:00:00")

\* config_manager.set(key, value) by a handler of the application
StoreSetting(key) ==
    /\ lastOp.op # "init"
    /\ UiSet(key, StoredValue(key), "set")

\* save(force=True) called on the thread of the user interface: it takes
\* the lock and writes whether or not the store is dirty
SaveForced ==
    /\ Alive
    /\ LockFree
    /\ lastOp.op # "init"
    /\ save_pc' = "open"
    /\ file_before' = fs[CONFIG_FILE]
    /\ lastOp' = OtherOp
    /\ UNCHANGED <<disk, storeVars, waiting, fs, crashed, since_set, dump_doc,
                   scanVars, uiVars, connected, upVars, renames>>
    /\ UNCHANGED fitVars
    /\ UNCHANGED histVars
    /\ UNCHANGED appVars

\* the application is closed after a save and started again: a new
\* ConfigManager loads the settings file
Restart ==
    /\ Alive
    /\ LockFree
    /\ lastOp.op = "save_ok"
    /\ LET r == Loaded(fs[CONFIG_FILE])
       IN  IF r.raised
           THEN /\ crashed' = TRUE
                /\ lastOp' = Op("load_raised", NoInfo, "", FALSE)
                /\ UNCHANGED config
           ELSE /\ config' = r.config
                /\ lastOp' = Op("restart", NoInfo, "", r.validated)
                /\ UNCHANGED crashed
    /\ dirty' = FALSE
    /\ timer' = NoTimer
    /\ UNCHANGED <<disk, waiting, save_pc, fs, since_set,
                   file_before, dump_doc, scanVars, uiVars, connected, upVars,
                   renames>>
    /\ UNCHANGED fitVars
    /\ UNCHANGED histVars
    /\ UNCHANGED appVars

----------------------------------------------------------------------------
(* FitFileManager.mark_file_processed, statement by statement *)

\* processed_info = self.config.get("processed_files", {}): get takes the
\* lock of the store and returns the stored dict itself
MarkGet(i) ==
    /\ Alive
    /\ LockFree
    /\ mk.pc = "none"
    /\ i \in DOMAIN file_infos
    /\ \E ts \in Timestamps : mk' = [pc |-> "got", info |-> file_infos[i], ts |-> ts]
    /\ lastOp' = OtherOp
    /\ UNCHANGED <<disk, storeVars, saveVars, scanVars, uiVars, connected, upVars,
                   renames>>
    /\ UNCHANGED fitVars
    /\ UNCHANGED histVars
    /\ UNCHANGED <<disk2, dirs, locator, sources_label, cache_age, shutVars>>

\* processed_info[file_key] = {...} is executed with no lock held
MarkPutGuard == TRUE

\* processed_info[file_key] = {...}: the stored dict changes in place
MarkPut ==
    /\ Alive
    /\ mk.pc = "got"
    /\ MarkPutGuard
    /\ config' = [config EXCEPT !.processed_files = LedgerPut(Ledger, mk.info, mk.ts)]
    /\ mk' = [mk EXCEPT !.pc = "put"]
    /\ lastOp' = OtherOp
    /\ UNCHANGED <<disk, dirty, timer, saveVars, scanVars, uiVars, connected, upVars,
                   renames>>
    /\ UNCHANGED fitVars
    /\ UNCHANGED histVars
    /\ UNCHANGED <<disk2, dirs, locator, sources_label, cache_age, shutVars>>

\* self.config.set("processed_files", processed_info): set takes the lock
\* and compares the stored dict with the dict it is given, which is the
\* same object
MarkSet ==
    /\ Alive
    /\ LockFree
    /\ mk.pc = "put"
    /\ ApplyStore(config_set(CurStore, "processed_files", Ledger))
    /\ mk' = NoMark
    /\ lastOp' = Op("mark_file_processed", mk.info, "processed_files",
                    SetChanges(CurStore, "processed_files", Ledger))
    /\ UNCHANGED <<disk, saveVars, scanVars, uiVars, connected, upVars, renames>>
    /\ UNCHANGED fitVars
    /\ UNCHANGED histVars
    /\ UNCHANGED <<disk2, dirs, locator, sources_label, cache_age, shutVars>>

----------------------------------------------------------------------------
(* The auto-scan timer and on_closing *)

\* the auto-scan Timer expires: its thread enters _auto_scan_wrapper and
\* queues a scan for the user interface thread
AutoScanFire ==
    /\ Alive
    /\ scan_timer = "armed"
    /\ Len(ui_queue) < MaxQueue
    /\ scan_timer' = "fired"
    /\ ui_queue' = Append(ui_queue, "scan")
    /\ lastOp' = OtherOp
    /\ UNCHANGED <<disk, storeVars, saveVars, scanVars, tree, selection, menu_item,
                   connected, upVars, renames>>
    /\ UNCHANGED fitVars
    /\ UNCHANGED histVars
    /\ UNCHANGED <<disk2, dirs, locator, sources_label, cache_age, close_pc,
                   close_doc, token, mk>>

\* _schedule_auto_scan: the running timer, if any, is cancelled; a new one
\* is started when the auto-scan box is ticked
_schedule_auto_scan(auto_scan) == IF auto_scan THEN "armed" ELSE "none"

\* the rest of _auto_scan_wrapper, still on the thread of the expired
\* timer: it schedules the next scan
AutoScanRearm ==
    /\ Alive
    /\ scan_timer = "fired"
    /\ \E auto_scan \in BOOLEAN : scan_timer' = _schedule_auto_scan(auto_scan)
    /\ lastOp' = OtherOp
    /\ UNCHANGED <<disk, storeVars, saveVars, scanVars, uiVars, connected, upVars,
                   renames>>
    /\ UNCHANGED fitVars
    /\ UNCHANGED histVars
    /\ UNCHANGED <<disk2, dirs, locator, sources_label, cache_age, close_pc,
                   close_doc, token, mk>>

\* periodic_check_queue running a queued scan_files_async: it starts the
\* scan thread (ScanThread)
CheckQueueScan ==
    /\ Alive
    /\ ui_queue # <<>>
    /\ Head(ui_queue) = "scan"
    /\ ui_queue' = Tail(ui_queue)
    /\ lastOp' = OtherOp
    /\ UNCHANGED <<disk, storeVars, saveVars, scanVars, tree, selection, menu_item,
                   connected, upVars, renames>>
    /\ UNCHANGED fitVars
    /\ UNCHANGED histVars
    /\ UNCHANGED appVars

\* on_closing, first part: _shutting_down is set (nothing reads it) and
\* the timer held by _auto_scan_timer is cancelled, which stops a timer
\* that is still waiting and does nothing to one that has expired
CloseCancel ==
    /\ Alive
    /\ close_pc = "running"
    /\ close_pc' = "cancelled"
    /\ scan_timer' = IF scan_timer = "armed" THEN "none" ELSE scan_timer
    /\ lastOp' = OtherOp
    /\ UNCHANGED <<disk, storeVars, saveVars, scanVars, uiVars, connected, upVars,
                   renames>>
    /\ UNCHANGED fitVars
    /\ UNCHANGED histVars
    /\ UNCHANGED <<disk2, dirs, locator, sources_label, cache_age, close_doc,
                   token, mk>>

\* on_closing after the pause: config_manager.save(force=True) takes the
\* lock of the store and begins to write
CloseSave ==
    /\ Alive
    /\ close_pc = "cancelled"
    /\ LockFree
    /\ close_pc' = "saving"
    /\ close_doc' = config
    /\ save_pc' = "open"
    /\ file_before' = fs[CONFIG_FILE]
    /\ lastOp' = OtherOp
    /\ UNCHANGED <<disk, storeVars, waiting, fs, crashed, since_set, dump_doc,
                   scanVars, uiVars, connected, upVars, renames>>
    /\ UNCHANGED fitVars
    /\ UNCHANGED histVars
    /\ UNCHANGED <<disk2, dirs, locator, sources_label, cache_age, scan_timer,
                   token, mk>>

\* GarminAuthManager.disconnect: _is_connected = False, then _cleanup_token
\* unlinks TOKENS_PATH when it exists
disconnect ==
    /\ connected' = FALSE
    /\ token' = FALSE

\* on_closing after save has returned: cleanup_cache, disconnect, destroy
CloseEnd ==
    /\ Alive
    /\ close_pc = "saving"
    /\ LockFree
    /\ close_pc' = "closed"
    /\ cache' = <<>>
    /\ cache_fresh' = FALSE
    /\ cache_age' = NoCacheTime
    /\ locator' = [locator EXCEPT !.cache = "none", !.fresh = FALSE]
    /\ disconnect
    /\ lastOp' = OtherOp
    /\ UNCHANGED <<disk, storeVars, saveVars, aliased, file_infos, uiVars, upVars,
                   renames>>
    /\ UNCHANGED fitVars
    /\ UNCHANGED histVars
    /\ UNCHANGED <<disk2, dirs, sources_label, scan_timer, close_doc, mk>>

----------------------------------------------------------------------------
(* FitFileProcessor.cleanup_fit_file.  A FIT file is its sequence of
   messages; of the three averaged fields (cadence, power, heart rate),
   which the code treats alike, power stands for all.  A field is
   [has |-> present, val |-> value]; an absent field reads as None *)

Field(v) == [has |-> TRUE, val |-> v]
None == [has |-> FALSE, val |-> 0]

RecordMessage(power) == [kind |-> "record", power |-> power, avg_power |-> None]
SessionMessage(avg) == [kind |-> "session", power |-> None, avg_power |-> avg]
LapMessage == [kind |-> "lap", power |-> None, avg_power |-> None]
FileIdMessage == [kind |-> "file_id", power |-> None, avg_power |-> None]

RECURSIVE Sum(_)
Sum(values) == IF values = <<>> THEN 0 ELSE Head(values) + Sum(Tail(values))

IsPositive(v) == v > 0

\* _calculate_avg: the mean of the values that are greater than zero
_calculate_avg(values) ==
    LET valid_values == SelectSeq(values, IsPositive)
    IN  IF valid_values # <<>> THEN Sum(valid_values) \div Len(valid_values) ELSE 0

\* _append_value: None is stored as 0
_append_value(values, message) ==
    Append(values, IF message.power.has THEN message.power.val ELSE 0)

\* "not message.avg_power": the field is None or 0
Falsy(field) == ~field.has \/ field.val = 0

\* the body of the loop for a session message
UpdateSession(message, power_values) ==
    IF Falsy(message.avg_power) /\ power_values # <<>>
    THEN [message EXCEPT !.avg_power = Field(_calculate_avg(power_values))]
    ELSE message

\* variant: lap messages are passed on like any other message
Skipped_Never(message) == FALSE

\* "if isinstance(message, LapMessage): continue"
Skipped(message) == message.kind = "lap"

\* variant: the samples collected so far are kept after a session message
AfterSession_Kept(power_values) == power_values

\* "cadence_values, power_values, heart_rate_values = [], [], []" at the
\* end of the branch for a session message
AfterSession(power_values) == <<>>

RECURSIVE BuildFrom(_, _, _)
\* "for record in fit_file.records": the messages given to builder.add
BuildFrom(records, power_values, built) ==
    IF records = <<>> THEN built
    ELSE LET message == Head(records)
         IN  CASE Skipped(message) ->
                    BuildFrom(Tail(records), power_values, built)
               [] message.kind = "record" ->
                    BuildFrom(Tail(records), _append_value(power_values, message),
                              Append(built, message))
               [] message.kind = "session" ->
                    BuildFrom(Tail(records), AfterSession(power_values),
                              Append(built, UpdateSession(message, power_values)))
               [] OTHER ->
                    BuildFrom(Tail(records), power_values, Append(built, message))

NoFitFile == [exists |-> FALSE, complete |-> FALSE, records |-> <<>>]

\* what can go wrong: source missing, source unreadable, destination
\* directory not writable, FitFile.from_file raising, builder.build raising,
\* to_file raising before or after it created the file
FitFaults == {"none", "missing", "unreadable", "readonly_dir", "parse", "build",
              "write_nofile", "write_partial"}

PartialFitFile == [exists |-> TRUE, complete |-> FALSE, records |-> <<>>]

\* variant: the file a failed write created is left where it is
AfterWriteError_NoUnlink(created, unlink_ok) ==
    IF created THEN PartialFitFile ELSE NoFitFile

\* the except block of the write: "if new_file_path.exists(): unlink()",
\* an error of unlink being ignored
AfterWriteError(created, unlink_ok) ==
    IF created /\ ~unlink_ok THEN PartialFitFile ELSE NoFitFile

\* cleanup_fit_file(fit_file_path, new_file_path); generate_new_filename
\* chose a destination that does not exist.  After a failed write the
\* file is unlinked if it exists, and an error of unlink is ignored
cleanup_fit_file ==
    /\ fit_ret = "none"
    /\ \E fault \in FitFaults, unlink_ok \in BOOLEAN :
         /\ fault # "write_partial" => unlink_ok
         /\ fit_fault' = IF fault = "write_partial" /\ ~unlink_ok
                         THEN "write_partial_unlink_failed" ELSE fault
         /\ fit_ret' = IF fault = "none" THEN "True" ELSE "False"
         /\ fit_dst' =
              CASE fault = "none" ->
                     [exists |-> TRUE, complete |-> TRUE,
                      records |-> BuildFrom(fit_src, <<>>, <<>>)]
                [] fault \in {"build", "write_nofile", "write_partial"} ->
                     AfterWriteError(fault = "write_partial", unlink_ok)
                [] OTHER -> fit_dst
    /\ lastOp' = OtherOp
    /\ UNCHANGED <<disk, storeVars, saveVars, scanVars, uiVars, connected, upVars,
                   renames, fit_src, legacy>>
    /\ UNCHANGED histVars
    /\ UNCHANGED appVars

----------------------------------------------------------------------------
(* FitUploader.py, the legacy pipeline.  A file name is the sequence of
   the pieces its patterns tell apart. *)

\* "MyNewActivity-7.fit" and "MyNewActivity-3.8.5.fit": both are found by
\* the glob "MyNewActivity-*.fit" of get_fit_files, here newest first
NumberedFit == <<"MyNewActivity", "-", "7", ".fit">>

VersionedFit == <<"MyNewActivity", "-", "3", ".", "8", ".", "5", ".fit">>

LegacyFiles == <<NumberedFit, VersionedFit>>

DigitRuns == {"3", "5", "7", "8"}

MW_PREFIX == <<"MW", "_">>

\* the runs of upload_files that are followed
MaxRuns == 3

\* datetime.now().strftime("%Y-%m-%d_%H%M%S") during the n-th run
Clock == <<"000001", "000002", "000003", "000004", "000005">>

Stamp(n) == <<"2025-01-01", "_", Clock[n]>>

\* fit_file.name.split('-')[-1]
LastPart(name) ==
    IF \E i \in 1..Len(name) : name[i] = "-"
    THEN LET last == CHOOSE i \in 1..Len(name) :
                        /\ name[i] = "-"
                        /\ \A j \in (i + 1)..Len(name) : name[j] # "-"
         IN  SubSeq(name, last + 1, Len(name))
    ELSE name

\* re.search(r'MyNewActivity-(\d+)\.fit', fit_file.name): "_" and the
\* digits when the pattern is found, else ""
ActivityNum(name) ==
    IF \E i \in 1..(Len(name) - 3) :
          /\ name[i] = "MyNewActivity" /\ name[i + 1] = "-"
          /\ name[i + 2] \in DigitRuns /\ name[i + 3] = ".fit"
    THEN LET i == CHOOSE i \in 1..(Len(name) - 3) :
                     /\ name[i] = "MyNewActivity" /\ name[i + 1] = "-"
                     /\ name[i + 2] \in DigitRuns /\ name[i + 3] = ".fit"
         IN  <<"_", name[i + 2]>>
    ELSE <<>>

\* generate_new_filename for a file of MyWhoosh
generate_new_filename(fit_file, stamp) ==
    MW_PREFIX \o stamp \o ActivityNum(fit_file) \o <<".fit">>

EndsWith(name, tail) ==
    /\ Len(tail) <= Len(name)
    /\ SubSeq(name, Len(name) - Len(tail) + 1, Len(name)) = tail

\* "for existing_file in backup_dir.glob(f"*_{fit_file.name.split('-')[-1]}")"
\* finds a file
is_already_processed(backup, fit_file) ==
    \E existing_file \in backup : EndsWith(existing_file, <<"_">> \o LastPart(fit_file))

\* the legacy cleanup_fit_file: True with the new file written, False with
\* no file, or False with the file to_file had begun (nothing unlinks it)
CleanOutcomes == {"True", "False", "False_partial"}

\* the loop of cleanup_and_save_fit_files over fit_files from the i-th on:
\* the backup directory, processed_files and the files skipped as already
\* processed
RECURSIVE cleanup_and_save_fit_files(_, _, _, _, _, _, _)
cleanup_and_save_fit_files(fit_files, i, backup, processed_files, skipped, outcome, stamp) ==
    IF i > Len(fit_files)
    THEN [backup |-> backup, processed_files |-> processed_files,
          skipped |-> skipped]
    ELSE LET fit_file == fit_files[i]
             new_file == generate_new_filename(fit_file, stamp)
         IN  IF is_already_processed(backup, fit_file)
             THEN cleanup_and_save_fit_files(fit_files, i + 1, backup,
                      processed_files, skipped \cup {fit_file}, outcome, stamp)
             ELSE cleanup_and_save_fit_files(fit_files, i + 1,
                      IF outcome[i] = "False" THEN backup
                      ELSE backup \cup {new_file},
                      IF outcome[i] = "True"
                      THEN Append(processed_files,
                                  [source |-> fit_file, path |-> new_file])
                      ELSE processed_files,
                      skipped, outcome, stamp)

LegacyResponses == {"ok", "409", "http", "error"}

\* the legacy application after __init__: an empty backup directory, no
\* run of upload_files yet
NoLegacy ==
    [pc |-> "idle", run |-> 0, backup |-> {}, processed_files |-> <<>>,
     results |-> <<>>, skipped |-> {},
     last |-> [i \in 1..Len(LegacyFiles) |-> "never"]]

LegacyRest ==
    /\ lastOp' = OtherOp
    /\ UNCHANGED <<disk, storeVars, saveVars, scanVars, uiVars, connected, upVars,
                   renames, fit_src, fit_dst, fit_ret, fit_fault>>
    /\ UNCHANGED histVars
    /\ UNCHANGED appVars

\* FitUploaderApp.upload_files of FitUploader.py: the button is disabled
\* and process_thread runs cleanup_and_save_fit_files
upload_files ==
    /\ legacy.pc = "idle"
    /\ legacy.run < MaxRuns
    /\ \E outcome \in [1..Len(LegacyFiles) -> CleanOutcomes] :
         LET r == cleanup_and_save_fit_files(LegacyFiles, 1, legacy.backup,
                      <<>>, {}, outcome, Stamp(legacy.run + 1))
         IN  legacy' = [legacy EXCEPT
                          !.run = legacy.run + 1,
                          !.backup = r.backup,
                          !.processed_files = r.processed_files,
                          !.skipped = r.skipped,
                          !.results = <<>>,
                          !.pc = IF r.processed_files = <<>> THEN "report"
                                 ELSE "upload"]
    /\ LegacyRest

\* one turn of the loop of upload_fit_files_to_garmin: the file exists,
\* garth.client.upload returns, raises GarthHTTPError with or without
\* "409 Client Error", or raises something else
upload_fit_files_to_garmin ==
    /\ legacy.pc = "upload"
    /\ LET i == Len(legacy.results) + 1
           file == legacy.processed_files[i]
           k == CHOOSE k \in 1..Len(LegacyFiles) : LegacyFiles[k] = file.source
       IN  \E resp \in LegacyResponses :
             legacy' = [legacy EXCEPT
                          !.results = Append(legacy.results,
                                             resp \in {"ok", "409"}),
                          !.last[k] = resp,
                          !.pc = IF i = Len(legacy.processed_files)
                                 THEN "report" ELSE "upload"]
    /\ LegacyRest

\* after_upload, queued by process_thread: the button is enabled again
after_upload ==
    /\ legacy.pc = "report"
    /\ legacy' = [legacy EXCEPT !.pc = "idle"]
    /\ LegacyRest

----------------------------------------------------------------------------
(* GarminAuthManager *)

\* _login_thread: authenticate disconnects (the saved token is unlinked),
\* logs in and, on success, saves the new token with garth.save and stores
\* last_auth (the login button is disabled while is_processing)
Login ==
    /\ Alive
    /\ LockFree
    /\ ~is_processing
    /\ \E ok \in BOOLEAN :
         /\ connected' = ok
         /\ token' = ok
         /\ IF ok
            THEN \E ts \in Timestamps :
                   /\ ApplyStore(config_set(CurStore, "last_auth", ts))
                   /\ lastOp' = Op("login", NoInfo, "last_auth",
                                   SetChanges(CurStore, "last_auth", ts))
            ELSE /\ UNCHANGED storeVars
                 /\ lastOp' = OtherOp
    /\ UNCHANGED <<disk, saveVars, scanVars, uiVars, upVars, renames>>
    /\ UNCHANGED fitVars
    /\ UNCHANGED histVars
    /\ UNCHANGED <<disk2, dirs, locator, sources_label, cache_age, scan_timer,
                   close_pc, close_doc, mk>>

\* handle_logout: disconnect, then the buttons are refreshed
handle_logout ==
    /\ Alive
    /\ disconnect
    /\ lastOp' = OtherOp
    /\ UNCHANGED <<disk, storeVars, saveVars, scanVars, uiVars, upVars, renames>>
    /\ UNCHANGED fitVars
    /\ UNCHANGED histVars
    /\ UNCHANGED <<disk2, dirs, locator, sources_label, cache_age, scan_timer,
                   close_pc, close_doc, mk>>

\* try_token_auth: False when TOKENS_PATH does not exist; otherwise
\* garth.resume either gives a session with a user name (_is_connected =
\* True) or fails, and then _cleanup_token unlinks the token and
\* _is_connected is left as it is
try_token_auth(resumed) ==
    IF token /\ resumed
    THEN connected' = TRUE /\ token' = token
    ELSE connected' = connected /\ token' = FALSE

\* the next start of the application after on_closing has destroyed the
\* window: __init__ arms the timer and auto_authenticate calls
\* try_token_auth
auto_authenticate ==
    /\ Alive
    /\ close_pc = "closed"
    /\ close_pc' = "running"
    /\ scan_timer' = "armed"
    /\ \E resumed \in BOOLEAN : try_token_auth(resumed)
    /\ lastOp' = OtherOp
    /\ UNCHANGED <<disk, storeVars, saveVars, scanVars, uiVars, upVars, renames>>
    /\ UNCHANGED fitVars
    /\ UNCHANGED histVars
    /\ UNCHANGED <<disk2, dirs, locator, sources_label, cache_age, close_doc, mk>>

----------------------------------------------------------------------------
(* GarminUploader and the upload thread *)

Responses == {"ok", "409", "401", "429", "net", "other"}

Min(a, b) == IF a < b THEN a ELSE b

\* GarminUploader.__init__
max_workers == Min(MAX_CONCURRENT_UPLOADS, CpuCount)

NewTask == [st |-> "queued", attempt |-> 0, success |-> FALSE, dup |-> FALSE,
            all_net |-> TRUE]

ZeroStats == [total |-> 0, success |-> 0, failed |-> 0, duplicates |-> 0]

\* rows of the selection in tree order
RECURSIVE SetToSeq(_)
SetToSeq(S) ==
    IF S = {} THEN <<>>
    ELSE LET m == CHOOSE x \in S : \A y \in S : x <= y
         IN  <<m>> \o SetToSeq(S \ {m})

\* start_upload: file_infos[index] for every selected row; an index beyond
\* the list raises IndexError after is_processing was set
start_upload ==
    /\ Alive
    /\ ~is_processing
    /\ connected
    /\ selection # {}
    /\ is_processing' = TRUE
    /\ LET rows == SetToSeq(selection)
       IN  IF \E i \in 1..Len(rows) : rows[i] > Len(file_infos)
           THEN /\ UNCHANGED <<up_pc, selected_files>>
                /\ lastOp' = OtherOp
           ELSE /\ selected_files' = [i \in 1..Len(rows) |-> file_infos[rows[i]].path]
                /\ up_pc' = "prepare"
                /\ lastOp' = Op("start_upload", NoInfo, "", FALSE)
    /\ UNCHANGED <<disk, storeVars, saveVars, scanVars, uiVars, connected, batch,
                   task, results, stats, marked, renames>>
    /\ UNCHANGED fitVars
    /\ UNCHANGED histVars
    /\ UNCHANGED appVars

\* the elements of seq at the positions of keep, in order
RECURSIVE Filter(_, _, _)
Filter(seq, keep, i) ==
    IF i > Len(seq) THEN <<>>
    ELSE (IF i \in keep THEN <<seq[i]>> ELSE <<>>) \o Filter(seq, keep, i + 1)

\* cleanup_fit_file can only succeed on a source file that can be read
CanClean(p) == disk[p.name].exists /\ disk[p.name].readable

\* _upload_thread up to and including the start of upload_files: with a
\* usable backup directory every file is cleaned into it and the copy is
\* uploaded, a file whose cleanup fails is left out; upload_files returns
\* at once on an empty list, otherwise it resets the statistics and
\* submits one task per path
UploadPrepare ==
    /\ Alive
    /\ LockFree
    /\ up_pc = "prepare"
    /\ \E usable \in BOOLEAN, cleaned \in SUBSET (1..Len(selected_files)) :
         /\ usable => config_get(config, "backup_path", "") # ""
         /\ ~usable => cleaned = {}
         /\ \A i \in cleaned : CanClean(selected_files[i])
         /\ LET processed_files ==
                  IF usable
                  THEN [i \in 1..Len(Filter(selected_files, cleaned, 1)) |->
                          BakPath(Filter(selected_files, cleaned, 1)[i].name)]
                  ELSE selected_files
            IN  IF processed_files = <<>>
                THEN /\ ui_queue' = Append(ui_queue, "post_upload")
                     /\ up_pc' = "posted"
                     /\ batch' = <<>>
                     /\ UNCHANGED <<task, results, stats, marked>>
                ELSE /\ batch' = processed_files
                     /\ task' = [i \in 1..Len(processed_files) |-> NewTask]
                     /\ results' = <<>>
                     /\ marked' = {}
                     /\ stats' = [ZeroStats EXCEPT !.total = Len(processed_files)]
                     /\ up_pc' = "collect"
                     /\ UNCHANGED ui_queue
    /\ lastOp' = OtherOp
    /\ UNCHANGED <<disk, storeVars, saveVars, scanVars, tree, selection, menu_item,
                   is_processing, connected, selected_files, renames>>
    /\ UNCHANGED fitVars
    /\ progress' = <<>>
    /\ UNCHANGED up_hist
    /\ UNCHANGED appVars

\* file_path.exists() and os.access(file_path, os.R_OK)
CanRead(p) == p.dir = "bak" \/ (disk[p.name].exists /\ disk[p.name].readable)

Running == {i \in DOMAIN task : task[i].st = "running"}

\* a pool thread takes the next task and enters _upload_file_with_retry
WorkerStart(i) ==
    /\ Alive
    /\ up_pc = "collect"
    /\ i \in DOMAIN task
    /\ task[i].st = "queued"
    /\ \A j \in 1..(i-1) : task[j].st # "queued"
    /\ Cardinality(Running) < max_workers
    /\ task' = [task EXCEPT ![i].st = IF CanRead(batch[i]) THEN "running" ELSE "done"]
    /\ lastOp' = OtherOp
    /\ UNCHANGED <<disk, storeVars, saveVars, scanVars, uiVars, is_processing,
                   connected, up_pc, selected_files, batch, results, stats, marked,
                   renames>>
    /\ UNCHANGED fitVars
    /\ UNCHANGED histVars
    /\ UNCHANGED appVars

Returned(success, dup, disc) ==
    [ret |-> TRUE, success |-> success, dup |-> dup, disc |-> disc]

\* variant: the loop goes on until the transport gives a final answer
NextRound_Unbounded(attempt, max_retries) ==
    [ret |-> FALSE, success |-> FALSE, dup |-> FALSE, disc |-> FALSE]

\* continue, or the end of the loop body: the loop goes to the next attempt
\* and ends, with (False, False), after the last one
NextRound(attempt, max_retries) ==
    [ret |-> attempt + 1 >= max_retries, success |-> FALSE, dup |-> FALSE,
     disc |-> FALSE]

\* variant: a network error ends the upload at once
AfterResponse_NoRetry(resp, attempt, max_retries) ==
    CASE resp = "ok"  -> Returned(TRUE, FALSE, FALSE)
      [] resp = "409" -> Returned(TRUE, TRUE, FALSE)
      [] resp = "401" -> Returned(FALSE, FALSE, TRUE)
      [] resp = "429" -> NextRound(attempt, max_retries)
      [] resp = "net" -> Returned(FALSE, FALSE, FALSE)
      [] OTHER        -> NextRound(attempt, max_retries)

\* _upload_file_with_retry: what one pass of the loop does with the
\* response of the transport; a rate limit and a network error sleep and
\* continue, any other error sleeps at the end of the body
AfterResponse(resp, attempt, max_retries) ==
    CASE resp = "ok"  -> Returned(TRUE, FALSE, FALSE)
      [] resp = "409" -> Returned(TRUE, TRUE, FALSE)
      [] resp = "401" -> Returned(FALSE, FALSE, TRUE)
      [] resp = "429" -> NextRound(attempt, max_retries)
      [] resp = "net" -> NextRound(attempt, max_retries)
      [] OTHER        -> NextRound(attempt, max_retries)

\* refresh_session: False when not connected or when the session is
\* invalid and the token cannot be resumed
refresh_session(session_ok) == connected /\ session_ok

\* one pass of the retry loop of task i
Attempt(i) ==
    /\ Alive
    /\ up_pc = "collect"
    /\ i \in DOMAIN task
    /\ task[i].st = "running"
    /\ \E session_ok \in BOOLEAN, resp \in Responses :
         IF ~refresh_session(session_ok)
         THEN /\ task' = [task EXCEPT ![i].st = "done", ![i].all_net = FALSE]
              /\ UNCHANGED connected
              /\ lastOp' = OtherOp
         ELSE LET r == AfterResponse(resp, task[i].attempt, MAX_RETRY_ATTEMPTS)
              IN  /\ task' = [task EXCEPT
                                ![i].st = IF r.ret THEN "done" ELSE "running",
                                ![i].attempt = task[i].attempt + 1,
                                ![i].success = r.success,
                                ![i].dup = r.dup,
                                ![i].all_net = task[i].all_net /\ resp = "net"]
                  /\ connected' = IF r.disc THEN FALSE ELSE connected
                  /\ lastOp' = OtherOp
    /\ UNCHANGED <<disk, storeVars, saveVars, scanVars, uiVars, is_processing,
                   up_pc, selected_files, batch, results, stats, marked, renames>>
    /\ UNCHANGED fitVars
    /\ UNCHANGED histVars
    /\ UNCHANGED appVars

\* history of a task: passes of the retry loop begun, submissions to the
\* transport, how the upload ended, and what it saw
NoHist == [passes |-> 0, subs |-> 0, refused |-> FALSE, unauth |-> FALSE,
           late |-> FALSE, only429 |-> TRUE]

\* a worker is inside refresh_session resuming the token, holding the lock
\* of the GarminAuthManager
AuthLockHeld == \E j \in DOMAIN task : task[j].st = "resuming"

\* some upload of the batch was answered Unauthorized
SeenUnauthorized == \E j \in DOMAIN up_hist : up_hist[j].unauth

\* variant: the file is submitted whatever refresh_session returned
AfterRefresh_Ignored(refreshed) == "submitting"

\* "if not self.auth_manager.refresh_session(): return False, False"
AfterRefresh(refreshed) == IF refreshed THEN "submitting" ELSE "done"

\* the head of a pass of the retry loop: refresh_session under the lock of
\* the GarminAuthManager.  Not connected: the upload returns (False, False).
\* Connected with a valid session: the file is submitted.  Connected with
\* an invalid session: try_token_auth starts resuming the token
AttemptRefresh(i) ==
    /\ Alive
    /\ up_pc = "collect"
    /\ i \in DOMAIN task
    /\ task[i].st = "running"
    /\ ~AuthLockHeld
    /\ LET h == [up_hist[i] EXCEPT
                    !.passes = up_hist[i].passes + 1,
                    !.late = IF up_hist[i].passes = 0 THEN SeenUnauthorized
                             ELSE up_hist[i].late]
       IN  IF ~connected
           THEN /\ task' = [task EXCEPT ![i].st = AfterRefresh(FALSE),
                                        ![i].all_net = FALSE]
                /\ up_hist' = [up_hist EXCEPT ![i] = [h EXCEPT !.refused = TRUE]]
           ELSE \E session_valid \in BOOLEAN :
                  IF session_valid
                  THEN /\ task' = [task EXCEPT ![i].st = AfterRefresh(TRUE)]
                       /\ up_hist' = [up_hist EXCEPT
                                        ![i] = [h EXCEPT !.subs = h.subs + 1]]
                  ELSE /\ task' = [task EXCEPT ![i].st = "resuming"]
                       /\ up_hist' = [up_hist EXCEPT ![i] = h]
    /\ lastOp' = OtherOp
    /\ UNCHANGED <<disk, storeVars, saveVars, scanVars, uiVars, is_processing,
                   connected, up_pc, selected_files, batch, results, stats, marked,
                   renames, fitVars, progress, appVars>>

\* try_token_auth called by refresh_session comes back: on success it sets
\* _is_connected and the file is submitted, on failure the upload returns
\* (False, False) and _is_connected is left as it is
TokenResumed(i) ==
    /\ Alive
    /\ up_pc = "collect"
    /\ i \in DOMAIN task
    /\ task[i].st = "resuming"
    /\ \E resumed \in BOOLEAN :
         /\ try_token_auth(resumed)
         /\ IF token /\ resumed
            THEN /\ task' = [task EXCEPT ![i].st = AfterRefresh(TRUE)]
                 /\ up_hist' = [up_hist EXCEPT ![i].subs = up_hist[i].subs + 1]
            ELSE /\ task' = [task EXCEPT ![i].st = AfterRefresh(FALSE),
                                         ![i].all_net = FALSE]
                 /\ up_hist' = [up_hist EXCEPT ![i].refused = TRUE]
    /\ lastOp' = OtherOp
    /\ UNCHANGED <<disk, storeVars, saveVars, scanVars, uiVars, is_processing,
                   up_pc, selected_files, batch, results, stats, marked,
                   renames, fitVars, progress>>
    /\ UNCHANGED <<disk2, dirs, locator, sources_label, cache_age, scan_timer,
                   close_pc, close_doc, mk>>

\* garth.client.upload returns or raises: the rest of the pass.  The
\* Unauthorized branch writes _is_connected without taking the lock
Response(i) ==
    /\ Alive
    /\ up_pc = "collect"
    /\ i \in DOMAIN task
    /\ task[i].st = "submitting"
    /\ \E resp \in Responses :
         LET r == AfterResponse(resp, task[i].attempt, MAX_RETRY_ATTEMPTS)
         IN  /\ task' = [task EXCEPT
                           ![i].st = IF r.ret THEN "done" ELSE "running",
                           ![i].attempt = task[i].attempt + 1,
                           ![i].success = r.success,
                           ![i].dup = r.dup,
                           ![i].all_net = task[i].all_net /\ resp = "net"]
             /\ connected' = IF r.disc THEN FALSE ELSE connected
             /\ up_hist' = [up_hist EXCEPT
                              ![i].unauth = r.disc,
                              ![i].only429 = up_hist[i].only429 /\ resp = "429"]
    /\ lastOp' = OtherOp
    /\ UNCHANGED <<disk, storeVars, saveVars, scanVars, uiVars, is_processing,
                   up_pc, selected_files, batch, results, stats, marked,
                   renames, fitVars, progress, appVars>>

\* variant: every finished upload is treated as a success
MarksLedger_Always(t) == TRUE

\* upload_files: "if success:" guards the counters and the ledger write
MarksLedger(t) == t.success

\* no file
NoName == <<>>

\* variant: the percentage is computed from the index of enumerate itself
progress_of_Index(i, n) == <<i * 100, n>>

\* "progress = (i + 1) / len(files) * 100" for the i-th (from 0) completed
\* future of n: the percentage as the fraction <<numerator, denominator>>
progress_of(i, n) == <<(i + 1) * 100, n>>

\* upload_files: the body of the as_completed loop for the finished task i.
\* After a success the counters are raised first, then the record is looked
\* up in a scan and marked.  The scan raises when a file it listed is gone
\* by the time it sorts the list by stat().st_mtime (vanished names that
\* file); "except Exception" then counts the file as failed as well.
\* Before that progress_callback is called once: it puts an
\* _update_progress on ui_queue, a queue.Queue() without a size limit, so
\* the put never waits; _update_progress only sets the progress widgets
Collect(i, vanished) ==
    /\ Alive
    /\ LockFree
    /\ up_pc = "collect"
    /\ i \in DOMAIN task
    /\ task[i].st = "done"
    /\ task' = [task EXCEPT ![i].st = "collected"]
    /\ IF MarksLedger(task[i])
       THEN IF vanished # NoName
            THEN /\ ~ScanHitsCache
                 /\ disk[vanished].exists
                 /\ disk' = [disk EXCEPT ![vanished] = NoFile]
                 /\ stats' = IF task[i].dup
                             THEN [stats EXCEPT !.duplicates = stats.duplicates + 1,
                                                !.failed = stats.failed + 1]
                             ELSE [stats EXCEPT !.success = stats.success + 1,
                                                !.failed = stats.failed + 1]
                 /\ results' = [k \in DOMAIN results \cup {i} |->
                                   IF k = i THEN FALSE ELSE results[k]]
                 /\ lastOp' = OtherOp
                 /\ UNCHANGED <<storeVars, marked, cache, cache_fresh, aliased>>
            ELSE /\ stats' = IF task[i].dup
                             THEN [stats EXCEPT !.duplicates = stats.duplicates + 1]
                             ELSE [stats EXCEPT !.success = stats.success + 1]
                 /\ results' = [k \in DOMAIN results \cup {i} |->
                                   IF k = i THEN task[i].success ELSE results[k]]
                 /\ LET found == scan_files_async(Ledger)
                        j == FirstByPath(found, batch[i])
                    IN  /\ cache' = found
                        /\ cache_fresh' = TRUE
                        /\ aliased' = (aliased /\ ScanHitsCache)
                        /\ IF j # 0
                           THEN \E ts \in Timestamps :
                                  /\ ApplyStore(mark_file_processed(CurStore, found[j],
                                                                    ts))
                                  /\ marked' = marked \cup {i}
                                  /\ lastOp' = Op("upload_mark", found[j],
                                                  "processed_files",
                                                  LedgerPut(Ledger, found[j], ts)
                                                     # Ledger)
                           ELSE /\ UNCHANGED <<storeVars, marked>>
                                /\ lastOp' = OtherOp
                 /\ UNCHANGED disk
       ELSE /\ vanished = NoName
            /\ stats' = [stats EXCEPT !.failed = stats.failed + 1]
            /\ results' = [k \in DOMAIN results \cup {i} |->
                              IF k = i THEN task[i].success ELSE results[k]]
            /\ lastOp' = OtherOp
            /\ UNCHANGED <<disk, storeVars, marked, cache, cache_fresh, aliased>>
    /\ progress' = Append(progress, progress_of(Len(progress), Len(batch)))
    /\ UNCHANGED <<saveVars, file_infos, uiVars, is_processing, connected,
                   up_pc, selected_files, batch, renames>>
    /\ UNCHANGED fitVars
    /\ UNCHANGED up_hist
    /\ locator' = IF MarksLedger(task[i]) THEN AfterScan ELSE locator
    /\ cache_age' = IF MarksLedger(task[i]) /\ vanished = NoName THEN AgeAfterScan
                    ELSE cache_age
    /\ UNCHANGED <<disk2, dirs, sources_label, shutVars, mk>>

\* upload_files returns and _upload_thread queues _post_upload
UploadReturn ==
    /\ Alive
    /\ up_pc = "collect"
    /\ \A i \in DOMAIN task : task[i].st = "collected"
    /\ up_pc' = "posted"
    /\ ui_queue' = Append(ui_queue, "post_upload")
    /\ lastOp' = OtherOp
    /\ UNCHANGED <<disk, storeVars, saveVars, scanVars, tree, selection, menu_item,
                   is_processing, connected, selected_files, batch, task, results,
                   stats, marked, renames>>
    /\ UNCHANGED fitVars
    /\ UNCHANGED histVars
    /\ UNCHANGED appVars

\* _post_upload; the scan it starts is ScanThread.  The locals of the
\* finished upload thread (its lists, futures and results) are gone
PostUpload ==
    /\ is_processing' = FALSE
    /\ up_pc' = "idle"
    /\ selected_files' = <<>>
    /\ batch' = <<>>
    /\ task' = <<>>
    /\ results' = <<>>
    /\ marked' = {}
    /\ lastOp' = OtherOp
    /\ UNCHANGED <<disk, storeVars, saveVars, scanVars, tree, selection, menu_item,
                   connected, stats, renames>>
    /\ UNCHANGED fitVars
    /\ progress' = <<>>
    /\ UNCHANGED up_hist
    /\ UNCHANGED appVars

\* periodic_check_queue running a queued _update_files_ui
CheckQueueUpdateFiles ==
    /\ Alive
    /\ ui_queue # <<>>
    /\ Head(ui_queue) = "update_files_ui"
    /\ ui_queue' = Tail(ui_queue)
    /\ UpdateFilesUi

\* periodic_check_queue running a queued _post_upload
CheckQueuePostUpload ==
    /\ Alive
    /\ ui_queue # <<>>
    /\ Head(ui_queue) = "post_upload"
    /\ ui_queue' = Tail(ui_queue)
    /\ PostUpload

\* the user renames a file of the source directory
Rename(n1, n2) ==
    /\ Alive
    /\ renames < MaxRenames
    /\ disk[n1].exists
    /\ ~disk[n2].exists
    /\ disk' = [disk EXCEPT ![n1] = NoFile, ![n2] = disk[n1]]
    /\ renames' = renames + 1
    /\ lastOp' = OtherOp
    /\ UNCHANGED <<storeVars, saveVars, scanVars, uiVars, connected, upVars>>
    /\ UNCHANGED fitVars
    /\ UNCHANGED histVars
    /\ UNCHANGED appVars

\* the user deletes a file of the source directory
DeleteFile(n) ==
    /\ Alive
    /\ disk[n].exists
    /\ disk' = [disk EXCEPT ![n] = NoFile]
    /\ lastOp' = OtherOp
    /\ UNCHANGED <<storeVars, saveVars, scanVars, uiVars, connected, upVars, renames>>
    /\ UNCHANGED fitVars
    /\ UNCHANGED histVars
    /\ UNCHANGED appVars

----------------------------------------------------------------------------
(* Initial states and specifications *)

\* a file that may be unreadable, and a second one that is empty or has a
\* two-digit size
InitDisks ==
    {[n \in Names |->
        CASE n = NameA -> [exists |-> TRUE, content |-> "c1", readable |-> r,
                           mtime |-> 2]
          [] n = NameB -> [exists |-> TRUE, content |-> c, readable |-> TRUE,
                           mtime |-> 1]
          [] OTHER -> NoFile] : r \in BOOLEAN, c \in {"c0", "c3"}}

\* ledgers loaded from the settings file: empty, an entry of the old format
InitLedgers == {<<>>, (FileKey(NameA, 1) :> LegacyEntry)}

InitApp(disks, backups, ledgers) ==
    /\ disk \in disks
    /\ \E bp \in backups, l \in ledgers :
         config = [k \in {"username", "backup_path", "processed_files"} |->
                      CASE k = "username" -> ""
                        [] k = "backup_path" -> bp
                        [] OTHER -> l]
    /\ dirty = FALSE
    /\ timer = NoTimer
    /\ waiting = 0
    /\ save_pc = "idle"
    /\ fs = [f \in {CONFIG_FILE, "tmp"} |->
                IF f = CONFIG_FILE
                THEN [exists |-> TRUE, kind |-> "object", doc |-> config,
                      chunks |-> NumChunks]
                ELSE AbsentFile]
    /\ crashed = FALSE
    /\ cache = <<>>
    /\ cache_fresh = FALSE
    /\ cache_age = NoCacheTime
    /\ aliased = FALSE
    /\ file_infos = <<>>
    /\ tree = <<>>
    /\ selection = {}
    /\ menu_item = 0
    /\ ui_queue = <<>>
    /\ is_processing = FALSE
    /\ connected = FALSE
    /\ up_pc = "idle"
    /\ selected_files = <<>>
    /\ batch = <<>>
    /\ task = <<>>
    /\ results = <<>>
    /\ stats = ZeroStats
    /\ renames = 0
    /\ marked = {}
    /\ since_set = 0
    /\ file_before = fs[CONFIG_FILE]
    /\ dump_doc = config
    /\ fit_src = <<>>
    /\ fit_dst = NoFitFile
    /\ fit_ret = "none"
    /\ legacy = NoLegacy
    /\ fit_fault = "none"
    /\ up_hist = <<>>
    /\ progress = <<>>
    /\ AppRunning
    /\ lastOp = Op("init", NoInfo, "", FALSE)

InitWith(disks, backups, ledgers) == InitApp(disks, backups, ledgers) /\ OneSource

\* files of the upload runs: two readable files with equal or different content
UploadDisks ==
    {[n \in Names |->
        CASE n = NameA -> [exists |-> TRUE, content |-> "c1", readable |-> TRUE,
                           mtime |-> 2]
          [] n = NameB -> [exists |-> TRUE, content |-> c, readable |-> TRUE,
                           mtime |-> 1]
          [] OTHER -> NoFile] : c \in {"c3"}}

\* a ledger entry written for a file that was renamed since
RenamedEntry ==
    (FileKey(NameC, 1) :> [isdict |-> TRUE, timestamp |-> 1, hash |-> "h1",
                           size |-> 1, path |-> SrcPath(NameC)])

Init == InitWith(UploadDisks, {"", "bak"}, {<<>>, RenamedEntry})

\* the user leaves the tree alone while a batch is running
UserActs == ~is_processing

\* the application: scan, selection, upload
Next ==
    \/ ScanThread
    \/ CheckQueueUpdateFiles
    \/ CheckQueuePostUpload
    \/ UserActs /\ \E row \in 1..Cardinality(Names) : on_tree_right_click(row)
    \/ UserActs /\ mark_as_processed
    \/ UserActs /\ select_all_files
    \/ Login
    \/ start_upload
    \/ UploadPrepare
    \/ \E i \in 1..Cardinality(Names) : WorkerStart(i)
    \/ \E i \in 1..Cardinality(Names) : Attempt(i)
    \/ \E i \in 1..Cardinality(Names) : Collect(i, NoName)
    \/ UploadReturn

Spec == Init /\ [][Next]_vars

InitLedger == InitWith(InitDisks, {""}, InitLedgers)

\* the catalog and the ledger: scan, rename, the tree's ledger handlers
NextLedger ==
    \/ ScanThread
    \/ CacheExpire
    \/ CheckQueueUpdateFiles
    \/ \E row \in 1..Cardinality(Names) : on_tree_right_click(row)
    \/ mark_as_processed
    \/ mark_as_new
    \/ cleanup_processed_files
    \/ \E n1 \in Names, n2 \in Names : Rename(n1, n2)

SpecLedger == InitLedger /\ [][NextLedger]_vars

\* first producer directory: a is newer than b; b may be empty
CatalogDisks ==
    {[n \in Names |->
        CASE n = NameA -> [exists |-> TRUE, content |-> "c3", readable |-> TRUE,
                           mtime |-> 3]
          [] n = NameB -> [exists |-> TRUE, content |-> c, readable |-> TRUE,
                           mtime |-> 1]
          [] OTHER -> NoFile] : c \in {"c0", "c1"}}

\* second producer directory (a second installation writes files of the
\* same names): its file a is older or newer than the files of the first
CatalogDisks2 ==
    {[n \in Names |->
        IF n = NameA
        THEN [exists |-> TRUE, content |-> "c1", readable |-> TRUE, mtime |-> t]
        ELSE NoFile] : t \in {2, 4}}

\* the application was just constructed: nothing located or scanned yet,
\* one or two producer directories exist
InitCatalog ==
    /\ InitApp(CatalogDisks, {""}, {<<>>})
    /\ disk2 \in CatalogDisks2
    /\ dirs \in {{"src"}, {"src", "src2"}}
    /\ locator = NotLocated
    /\ sources_label = <<>>

\* the catalog over several sources and the tree's ledger handlers
NextCatalog ==
    \/ ScanThread
    \/ CacheExpire
    \/ CheckQueueUpdateFiles
    \/ \E row \in 1..Cardinality(Names) : on_tree_right_click(row)
    \/ mark_as_processed
    \/ mark_as_new

SpecCatalog == InitCatalog /\ [][NextCatalog]_vars

\* the locator: the sources display, scans, and producer directories that
\* come and go
NextLocator ==
    \/ refresh_sources
    \/ SourcesExpire
    \/ \E d \in {"src", "src2"} : ToggleDirectory(d)
    \/ ScanThread
    \/ CacheExpire
    \/ CheckQueueUpdateFiles

SpecLocator == InitCatalog /\ [][NextLocator]_vars

\* one or two source directories: scans, the tree, the selection and the
\* start of an upload
NextSelect ==
    \/ ScanThread
    \/ CheckQueueUpdateFiles
    \/ \E row \in 1..Cardinality(Names) : on_tree_right_click(row)
    \/ mark_as_processed
    \/ select_all_files
    \/ Login
    \/ start_upload

SpecSelect == InitCatalog /\ [][NextSelect]_vars

\* a step of a worker thread of the pool
PoolStep ==
    \E i \in 1..Cardinality(Names) :
        WorkerStart(i) \/ AttemptRefresh(i) \/ TokenResumed(i) \/ Response(i)

\* a step of the thread that runs upload_files: the body of the
\* as_completed loop for a finished future
CollectorStep ==
    \E i \in DOMAIN task : /\ task[i].st = "done"
                           /\ task' = [task EXCEPT ![i].st = "collected"]

\* the scan cache over time: scans, the clock, renames in between
NextCache ==
    \/ ScanThread
    \/ CheckQueueUpdateFiles
    \/ \E t \in AgeSamples : Elapse(t)
    \/ \E n1 \in Names, n2 \in Names : Rename(n1, n2)

SpecCache == InitLedger /\ [][NextCache]_vars

\* the settings store: ledger handlers, set, the auto-save timer and save
NextStore ==
    \/ ScanThread
    \/ CheckQueueUpdateFiles
    \/ \E row \in 1..Cardinality(Names) : on_tree_right_click(row)
    \/ mark_as_processed
    \/ mark_as_new
    \/ cleanup_processed_files
    \/ change_language
    \/ Tick
    \/ \E i \in 1..MaxWaiting + 1 : TimerFire(i)
    \/ SaveBegin
    \/ SaveOpen
    \/ SaveDump
    \/ SaveReplace
    \/ SaveEnd
    \/ SaveFail
    \/ Crash

StoreDisks ==
    {[n \in Names |->
        IF n = NameA
        THEN [exists |-> TRUE, content |-> "c1", readable |-> TRUE, mtime |-> 2]
        ELSE NoFile]}

InitStore == InitWith(StoreDisks, {""}, InitLedgers)

SpecStore == InitStore /\ [][NextStore]_vars

\* batches one after the other while scans go on and the user deletes
\* files of the source directory
NextBatch ==
    \/ ScanThread
    \/ CacheExpire
    \/ \E n \in Names : DeleteFile(n)
    \/ CheckQueueUpdateFiles
    \/ CheckQueuePostUpload
    \/ Login
    \/ start_upload
    \/ UploadPrepare
    \/ \E i \in 1..Cardinality(Names) : WorkerStart(i)
    \/ \E i \in 1..Cardinality(Names) : Attempt(i)
    \/ \E i \in 1..Cardinality(Names) : Collect(i, NoName)
    \/ UploadReturn

\* a step of a worker thread of the pool, its retry loop taken as a whole
\* pass
WorkerStep == \E i \in 1..Cardinality(Names) : WorkerStart(i) \/ Attempt(i)

\* the upload thread, the pool threads and the polling of the queue by
\* the user interface thread are scheduled
SpecBatch ==
    /\ InitStore
    /\ [][NextBatch]_vars
    /\ WF_vars(UploadPrepare)
    /\ WF_vars(WorkerStep)
    /\ WF_task(CollectorStep)
    /\ WF_vars(UploadReturn)
    /\ WF_vars(CheckQueueUpdateFiles)
    /\ WF_vars(CheckQueuePostUpload)

\* the handlers of the user interface do not run while the thread inside
\* mark_file_processed is the user interface thread, and the clean-up
\* button is disabled while the upload thread runs
NotMarking == mk.pc = "none"

\* the ledger under concurrent threads: one thread inside
\* mark_file_processed, the handlers of the user interface, the
\* auto-save timer threads
NextRace ==
    \/ ScanThread
    \/ CheckQueueUpdateFiles
    \/ \E i \in 1..Cardinality(Names) : MarkGet(i)
    \/ MarkPut
    \/ MarkSet
    \/ NotMarking /\ \E row \in 1..Cardinality(Names) : on_tree_right_click(row)
    \/ NotMarking /\ mark_as_new
    \/ NotMarking /\ cleanup_processed_files
    \/ NotMarking /\ browse_backup_folder
    \/ Tick
    \/ \E i \in 1..MaxWaiting + 1 : TimerFire(i)
    \/ SaveBegin
    \/ SaveOpen
    \/ SaveDump
    \/ SaveReplace
    \/ SaveEnd
    \/ SaveFail

SpecRace == InitStore /\ [][NextRace]_vars

\* the handlers of the user interface run one at a time: none while
\* on_closing runs
UiIdle == close_pc = "running"

\* the process is there until on_closing has destroyed the window
NotClosed == close_pc # "closed"

\* shutdown: settings changed and saved by the auto-save timer, the
\* auto-scan timer and its scans, and on_closing
NextClose ==
    \/ UiIdle /\ browse_backup_folder
    \/ UiIdle /\ cleanup_processed_files
    \/ UiIdle /\ CheckQueueScan
    \/ UiIdle /\ CheckQueueUpdateFiles
    \/ NotClosed /\ ScanThread
    \/ NotClosed /\ Tick
    \/ NotClosed /\ \E i \in 1..MaxWaiting + 1 : TimerFire(i)
    \/ NotClosed /\ SaveBegin
    \/ NotClosed /\ SaveOpen
    \/ NotClosed /\ SaveDump
    \/ NotClosed /\ SaveReplace
    \/ NotClosed /\ SaveEnd
    \/ NotClosed /\ SaveFail
    \/ NotClosed /\ AutoScanFire
    \/ NotClosed /\ AutoScanRearm
    \/ CloseCancel
    \/ CloseSave
    \/ CloseEnd

SpecClose == InitStore /\ [][NextClose]_vars

\* the saved session over the life of the application: logins and logouts
\* (last_auth is no important key: no auto-save timer), on_closing with
\* the save it forces, and the next start
NextSession ==
    \/ UiIdle /\ Login
    \/ UiIdle /\ handle_logout
    \/ NotClosed /\ SaveOpen
    \/ NotClosed /\ SaveDump
    \/ NotClosed /\ SaveReplace
    \/ NotClosed /\ SaveEnd
    \/ NotClosed /\ SaveFail
    \/ CloseCancel
    \/ CloseSave
    \/ CloseEnd
    \/ auto_authenticate

SpecSession == InitStore /\ [][NextSession]_vars

\* the legacy application: runs of upload_files
NextLegacy ==
    \/ upload_files
    \/ upload_fit_files_to_garmin
    \/ after_upload

SpecLegacy == InitStore /\ [][NextLegacy]_vars

\* the auto-save alone: changing sets, the timer and the saves it runs
NextTimer ==
    \/ browse_backup_folder
    \/ change_language
    \/ cleanup_processed_files
    \/ Tick
    \/ \E i \in 1..MaxWaiting + 1 : TimerFire(i)
    \/ SaveBegin
    \/ SaveOpen
    \/ SaveDump
    \/ SaveReplace
    \/ SaveEnd
    \/ SaveFail

\* Timer threads and the thread inside save keep running
SpecTimer ==
    /\ InitStore
    /\ [][NextTimer]_vars
    /\ WF_vars(Tick)
    /\ WF_vars(\E i \in 1..MaxWaiting + 1 : TimerFire(i))
    /\ WF_vars(SaveBegin)
    /\ WF_vars(SaveOpen \/ SaveDump \/ SaveReplace \/ SaveEnd \/ SaveFail)

\* the constructor of ConfigManager, before load: any settings file
InitLoadOf(files) ==
    /\ disk \in StoreDisks
    /\ config = <<>>
    /\ dirty = FALSE
    /\ timer = NoTimer
    /\ waiting = 0
    /\ save_pc = "idle"
    /\ \E f \in files :
          fs = [p \in {CONFIG_FILE, "tmp"} |-> IF p = CONFIG_FILE THEN f
                                               ELSE AbsentFile]
    /\ crashed = FALSE
    /\ cache = <<>>
    /\ cache_fresh = FALSE
    /\ cache_age = NoCacheTime
    /\ aliased = FALSE
    /\ file_infos = <<>>
    /\ tree = <<>>
    /\ selection = {}
    /\ menu_item = 0
    /\ ui_queue = <<>>
    /\ is_processing = FALSE
    /\ connected = FALSE
    /\ up_pc = "idle"
    /\ selected_files = <<>>
    /\ batch = <<>>
    /\ task = <<>>
    /\ results = <<>>
    /\ stats = ZeroStats
    /\ renames = 0
    /\ marked = {}
    /\ since_set = 0
    /\ file_before = fs[CONFIG_FILE]
    /\ dump_doc = config
    /\ fit_src = <<>>
    /\ fit_dst = NoFitFile
    /\ fit_ret = "none"
    /\ legacy = NoLegacy
    /\ fit_fault = "none"
    /\ up_hist = <<>>
    /\ progress = <<>>
    /\ AppRunning
    /\ OneSource
    /\ lastOp = Op("init", NoInfo, "", FALSE)

InitLoad == InitLoadOf(LoadFiles)

NextLoad == load

SpecLoad == InitLoad /\ [][NextLoad]_vars

\* first start without a settings file
InitRoundTrip == InitLoadOf({AbsentFile})

\* settings stored, saved and loaded again
NextRoundTrip ==
    \/ load
    \/ \E key \in StoredKeys : StoreSetting(key)
    \/ SaveForced
    \/ SaveOpen
    \/ SaveDump
    \/ SaveReplace
    \/ SaveEnd
    \/ SaveFail
    \/ Restart

SpecRoundTrip == InitRoundTrip /\ [][NextRoundTrip]_vars

\* samples a record message can carry
Powers == {None, Field(0), Field(100), Field(150), Field(200)}

RECURSIVE SeqsUpTo(_, _)
\* the sequences over S of length at most n
SeqsUpTo(S, n) ==
    IF n = 0 THEN {<<>>}
    ELSE LET shorter == SeqsUpTo(S, n - 1)
         IN  shorter \cup {Append(q, x) : q \in {r \in shorter : Len(r) = n - 1},
                                          x \in S}

\* well-formed source files: samples, possibly a lap and a file_id message,
\* possibly a session, possibly a second block with its own session
FitSources ==
    {[i \in 1..Len(samples) |-> RecordMessage(samples[i])] \o mid \o sess \o tail :
        samples \in SeqsUpTo(Powers, MaxSamples),
        mid \in {<<>>, <<LapMessage, FileIdMessage>>},
        sess \in {<<>>, <<SessionMessage(None)>>, <<SessionMessage(Field(0))>>,
                  <<SessionMessage(Field(50))>>},
        tail \in {<<>>, <<RecordMessage(Field(100)), LapMessage,
                         SessionMessage(Field(0))>>}}

InitFit ==
    /\ disk \in StoreDisks
    /\ config = [k \in {"username", "backup_path", "processed_files"} |->
                    CASE k = "username" -> ""
                      [] k = "backup_path" -> "bak"
                      [] OTHER -> <<>>]
    /\ dirty = FALSE
    /\ timer = NoTimer
    /\ waiting = 0
    /\ save_pc = "idle"
    /\ fs = [f \in {CONFIG_FILE, "tmp"} |->
                IF f = CONFIG_FILE
                THEN [exists |-> TRUE, kind |-> "object", doc |-> config,
                      chunks |-> NumChunks]
                ELSE AbsentFile]
    /\ crashed = FALSE
    /\ cache = <<>>
    /\ cache_fresh = FALSE
    /\ cache_age = NoCacheTime
    /\ aliased = FALSE
    /\ file_infos = <<>>
    /\ tree = <<>>
    /\ selection = {}
    /\ menu_item = 0
    /\ ui_queue = <<>>
    /\ is_processing = FALSE
    /\ connected = FALSE
    /\ up_pc = "idle"
    /\ selected_files = <<>>
    /\ batch = <<>>
    /\ task = <<>>
    /\ results = <<>>
    /\ stats = ZeroStats
    /\ renames = 0
    /\ marked = {}
    /\ since_set = 0
    /\ file_before = fs[CONFIG_FILE]
    /\ dump_doc = config
    /\ fit_src \in FitSources
    /\ fit_dst = NoFitFile
    /\ fit_ret = "none"
    /\ legacy = NoLegacy
    /\ fit_fault = "none"
    /\ up_hist = <<>>
    /\ progress = <<>>
    /\ AppRunning
    /\ OneSource
    /\ lastOp = Op("init", NoInfo, "", FALSE)

NextFit == cleanup_fit_file

SpecFit == InitFit /\ [][NextFit]_vars

\* three readable files in the source directory
BatchDisk ==
    [n \in Names |->
        [exists |-> TRUE, readable |-> TRUE,
         content |-> CASE n = NameA -> "c1" [] n = NameB -> "c3" [] OTHER -> "c2",
         mtime |-> CASE n = NameA -> 3 [] n = NameB -> 2 [] OTHER -> 1]]

\* settings without a backup directory and with an empty ledger
BatchConfig ==
    [k \in {"username", "backup_path", "processed_files"} |->
        CASE k = "username" -> ""
          [] k = "backup_path" -> ""
          [] OTHER -> <<>>]

\* upload_files has reset the statistics and submitted one task per file:
\* the three files of the source directory, selected after a scan, no
\* backup directory, connected; the settings are one of configs
InitBatchOn(files, configs) ==
    /\ disk = files
    /\ OneSource
    /\ config \in configs
    /\ dirty = FALSE
    /\ timer = NoTimer
    /\ waiting = 0
    /\ save_pc = "idle"
    /\ fs = [f \in {CONFIG_FILE, "tmp"} |->
                IF f = CONFIG_FILE
                THEN [exists |-> TRUE, kind |-> "object", doc |-> config,
                      chunks |-> NumChunks]
                ELSE AbsentFile]
    /\ crashed = FALSE
    /\ cache = ScanDisk(<<>>)
    /\ cache_fresh \in BOOLEAN
    /\ cache_age = (IF cache_fresh THEN 0 ELSE SCAN_CACHE_DURATION)
    /\ aliased = TRUE
    /\ file_infos = cache
    /\ tree = [i \in 1..Len(file_infos) |-> file_infos[i].name]
    /\ selection = 1..Len(tree)
    /\ menu_item = 0
    /\ ui_queue = <<>>
    /\ is_processing = TRUE
    /\ connected = TRUE
    /\ up_pc = "collect"
    /\ selected_files = [i \in 1..Len(file_infos) |-> file_infos[i].path]
    /\ batch = selected_files
    /\ task = [i \in 1..Len(batch) |-> NewTask]
    /\ results = <<>>
    /\ stats = [ZeroStats EXCEPT !.total = Len(batch)]
    /\ renames = 0
    /\ marked = {}
    /\ since_set = 0
    /\ file_before = fs[CONFIG_FILE]
    /\ dump_doc = config
    /\ fit_src = <<>>
    /\ fit_dst = NoFitFile
    /\ fit_ret = "none"
    /\ legacy = NoLegacy
    /\ fit_fault = "none"
    /\ up_hist = [i \in 1..Len(batch) |-> NoHist]
    /\ progress = <<>>
    /\ AppRunning
    /\ lastOp = Op("init", NoInfo, "", FALSE)

InitBatch(configs) == InitBatchOn(BatchDisk, configs)

\* the worker threads of one batch, step by step, and the collecting loop
InitUpload == InitBatch({BatchConfig})

NextUpload ==
    \/ \E i \in 1..Cardinality(Names) : WorkerStart(i)
    \/ \E i \in 1..Cardinality(Names) : AttemptRefresh(i)
    \/ \E i \in 1..Cardinality(Names) : TokenResumed(i)
    \/ \E i \in 1..Cardinality(Names) : Response(i)
    \/ \E i \in 1..Cardinality(Names), n \in {NameC, NoName} : Collect(i, n)
    \/ UploadReturn

SpecUpload == InitUpload /\ [][NextUpload]_vars

\* two readable files in the source directory
RetryDisk == [BatchDisk EXCEPT ![NameB] = NoFile]

InitRetry == InitBatchOn(RetryDisk, {BatchConfig})

\* a batch of two files whose threads are scheduled and in which every
\* call to the transport and every sleep comes back
SpecRetry ==
    /\ InitRetry
    /\ [][NextUpload]_vars
    /\ WF_vars(PoolStep)
    /\ WF_task(CollectorStep)
    /\ WF_vars(UploadReturn)

\* the settings file of the user may name any number of concurrent uploads
PoolConfigs ==
    {[k \in DOMAIN BatchConfig \cup {"max_concurrent_uploads"} |->
        IF k = "max_concurrent_uploads" THEN n ELSE BatchConfig[k]] :
       n \in 1..MAX_CONCURRENT_UPLOADS}

InitPool == InitBatch(PoolConfigs)

NextPool ==
    \/ \E i \in 1..Cardinality(Names) : WorkerStart(i)
    \/ \E i \in 1..Cardinality(Names) : Attempt(i)
    \/ \E i \in 1..Cardinality(Names) : Collect(i, NoName)
    \/ UploadReturn

SpecPool == InitPool /\ [][NextPool]_vars

TypeOK ==
    /\ dirty \in BOOLEAN
    /\ waiting \in 0..MaxWaiting
    /\ save_pc \in {"idle", "open", "dump", "replace", "replaced"}
    /\ up_pc \in {"idle", "prepare", "collect", "posted"}
    /\ selection \subseteq 1..Len(tree)
    /\ scan_timer \in {"none", "armed", "fired"}
    /\ token \in BOOLEAN
    /\ close_pc \in {"running", "cancelled", "saving", "closed"}
    /\ mk.pc \in {"none", "got", "put"}


----------------------------------------------------------------------------
(* Properties *)

KeyOf(info) == FileKey(info.name, info.size_bytes)

\* C1: when upload_files has returned, mark_file_processed was called for
\* every file of the batch whose upload ended in Success or in a duplicate
\* response, the cleaned copies of the backup directory included.
C1_SuccessIsMarked ==
    up_pc = "posted" =>
        \A i \in DOMAIN results : results[i] => i \in marked

C3_TransientErrorsExhaustRetries ==
    \A i \in DOMAIN task :
        (task[i].st \in {"done", "collected"} /\ task[i].all_net
            /\ task[i].attempt > 0) =>
           /\ task[i].attempt = MAX_RETRY_ATTEMPTS
           /\ ~task[i].success
           /\ task[i].st = "collected" =>
                 (results[i] = FALSE /\ i \notin marked /\ stats.failed > 0)

\* a file failed after MAX_RETRY_ATTEMPTS network errors and was collected
C3_Witness ==
    \E i \in DOMAIN task :
        /\ task[i].st = "collected"
        /\ task[i].all_net
        /\ task[i].attempt = MAX_RETRY_ATTEMPTS
        /\ results[i] = FALSE

\* C4: every path start_upload hands to the upload thread belongs to a file
\* that is not marked processed, whatever rows were selected.
C4_BatchHasNoProcessedFile ==
    lastOp.op = "start_upload" =>
        \A i \in 1..Len(selected_files), k \in 1..Len(file_infos) :
            file_infos[k].path = selected_files[i] =>
                ~is_file_processed(Ledger, file_infos[k])

\* the records the ledger is probed with
Probes ==
    {[name |-> n, path |-> SrcPath(n), file_hash |-> h, size_bytes |-> sz,
      processed |-> FALSE, modified_time |-> 1] :
        n \in Names, h \in {"", "h1", "h3"}, sz \in {1, 12}}

StoredHashes(l) == {l[k].hash : k \in {x \in DOMAIN l : l[x].isdict}}

\* C5: is_file_processed(record) is true exactly when an entry stores the
\* record's non-empty fingerprint or the ledger has the key <name>_<size>.
C5_IsProcessedIffHashOrKey ==
    \A r \in Probes :
        is_file_processed(Ledger, r) <=>
            \/ (r.file_hash # "" /\ r.file_hash \in StoredHashes(Ledger))
            \/ KeyOf(r) \in DOMAIN Ledger

\* a record is processed by its fingerprint alone while another one, without
\* fingerprint, is not processed although an entry stores no fingerprint
C5_Witness ==
    /\ \E r \in Probes : is_file_processed(Ledger, r) /\ KeyOf(r) \notin DOMAIN Ledger
    /\ \E r \in Probes : /\ r.file_hash = ""
                         /\ "" \in StoredHashes(Ledger)
                         /\ ~is_file_processed(Ledger, r)

Renamed(info, n) == [info EXCEPT !.name = n, !.path = SrcPath(n)]

EntryRecord(e, n) ==
    [name |-> n, path |-> SrcPath(n), file_hash |-> e.hash, size_bytes |-> e.size,
     processed |-> FALSE, modified_time |-> 1]

SameLedger(l1, l2) ==
    /\ DOMAIN l1 = DOMAIN l2
    /\ \A k \in DOMAIN l1 :
          /\ l1[k].isdict = l2[k].isdict
          /\ l1[k].isdict =>
                /\ l1[k].hash = l2[k].hash
                /\ l1[k].size = l2[k].size
                /\ l1[k].path = l2[k].path

\* C7: mark_file_processed(r) applied twice, at any two times, leaves the
\* ledger it leaves when applied once, and r is processed afterwards.
C7_MarkIsIdempotent ==
    \A r \in Probes, t1 \in 1..2, t2 \in 1..2 :
        LET once == mark_file_processed(CurStore, r, t1)
            twice == mark_file_processed(once, r, t2)
        IN  /\ SameLedger(once.config["processed_files"],
                          twice.config["processed_files"])
            /\ is_file_processed(twice.config["processed_files"], r)
            /\ is_file_processed(once.config["processed_files"], r)

\* mark_file_processed ran on a record that was already marked and did not
\* change the ledger
C7_Witness ==
    /\ lastOp.op = "mark_as_processed"
    /\ ~lastOp.changed
    /\ Ledger # <<>>
    /\ is_file_processed(Ledger, lastOp.info)

Complete(doc) ==
    [exists |-> TRUE, kind |-> "object", doc |-> doc, chunks |-> NumChunks]

\* C8: at every point of save, a crash included, the settings file is a
\* complete document: the previous one up to the rename, the new one after.
C8_SettingsFileIntact ==
    /\ fs[CONFIG_FILE].exists
    /\ fs[CONFIG_FILE].chunks = NumChunks
    /\ save_pc \in {"open", "dump", "replace"} => fs[CONFIG_FILE] = file_before
    /\ save_pc = "replaced" => fs[CONFIG_FILE] = Complete(dump_doc)

\* the process was killed between the write of the temporary file and the
\* rename, with another thread waiting to save; the old document is intact
C8_Witness ==
    /\ crashed
    /\ save_pc = "replace"
    /\ waiting > 0
    /\ fs[temp_file] = Complete(dump_doc)
    /\ fs[CONFIG_FILE] # fs[temp_file]

\* C9: every change of the ledger made by mark_file_processed or mark_as_new
\* leaves the store dirty with the auto-save timer pending.
C9_LedgerMutationMarksDirty ==
    (lastOp.op \in {"mark_as_processed", "mark_as_new", "upload_mark"}
        /\ lastOp.changed) =>
        (dirty /\ timer # <<>>)

SetOps == {"set", "cleanup"}

\* C10: set marks the store dirty and, for an important key, leaves exactly
\* one timer pending with the full delay.
C10_SetMarksDirty ==
    lastOp.op \in SetOps =>
        /\ dirty
        /\ lastOp.key \in ImportantKeys => timer = <<AutoSaveDelay>>

\* C10 (amended): a set whose value differs from the stored one marks the
\* store dirty and, for an important key, leaves exactly one timer pending
\* with the full delay; no more than one timer is ever pending, a timer
\* expires AutoSaveDelay after the last such set, a save that has written
\* leaves the store not dirty, and a pending timer leads to a save call.
C10_ChangingSetSchedulesSave ==
    /\ [](/\ (lastOp.op \in SetOps /\ lastOp.changed) =>
               /\ dirty
               /\ lastOp.key \in ImportantKeys =>
                     (timer = <<AutoSaveDelay>> /\ since_set = 0)
          /\ Len(timer) <= 1
          /\ lastOp.op = "timer_fire" => since_set = AutoSaveDelay
          /\ lastOp.op = "save_ok" => ~dirty)
    /\ (timer # <<>>) ~> (lastOp.op \in {"save_ok", "save_noop", "save_fail"})

\* a changing set of an important key started a new timer after an earlier
\* timer had expired and its thread was still waiting to save
C10_Witness ==
    /\ lastOp.op \in SetOps
    /\ lastOp.changed
    /\ lastOp.key \in ImportantKeys
    /\ timer = <<AutoSaveDelay>>
    /\ since_set = 0
    /\ waiting > 0

\* the settings file holds a complete JSON object
FileIsObject(f) == f.exists /\ f.kind = "object" /\ f.chunks = NumChunks

\* C11: after load of a JSON object the configuration has exactly the keys
\* of the default schema; a key holds the loaded value when that value has
\* the type of the default, and the default otherwise (unknown keys are gone).
C11_LoadValidatesAgainstSchema ==
    (lastOp.op = "load" /\ FileIsObject(fs[CONFIG_FILE])) =>
        LET loaded == fs[CONFIG_FILE].doc
        IN  /\ DOMAIN config = DOMAIN _get_default_config
            /\ \A key \in DOMAIN config :
                  config[key] =
                     IF /\ key \in DOMAIN loaded
                        /\ loaded[key].t = _get_default_config[key].t
                     THEN loaded[key]
                     ELSE _get_default_config[key]

\* C12: load never raises, whatever the settings file holds.
C12_LoadNeverRaises == lastOp.op # "load_raised"

IsNotLap(message) == message.kind # "lap"

\* the messages of a file that are no lap messages
NonLap(records) == SelectSeq(records, IsNotLap)

\* position of the last session message before position i (0: none)
LastSessionBefore(records, i) ==
    LET S == {j \in 1..(i - 1) : records[j].kind = "session"}
    IN  IF S = {} THEN 0 ELSE CHOOSE j \in S : \A k \in S : k <= j

IsRecord(message) == message.kind = "record"

\* the samples between the previous session message and position i, a
\* missing sample counted as 0
SamplesBefore(records, i) ==
    LET block == SelectSeq(SubSeq(records, LastSessionBefore(records, i) + 1, i - 1),
                           IsRecord)
    IN  [j \in 1..Len(block) |-> IF block[j].power.has THEN block[j].power.val ELSE 0]

\* C13: a session message whose average power is absent or zero gets the
\* truncated mean of all samples since the previous session message, zero
\* and missing samples counted in sum and count: [100, 150, 200, 0] gives 112.
C13_AverageOverAllSamples ==
    fit_ret = "True" =>
        LET in == NonLap(fit_src)
            out == fit_dst.records
        IN  \A i \in 1..Len(in) :
              (in[i].kind = "session" /\ Falsy(in[i].avg_power)
                  /\ SamplesBefore(in, i) # <<>>) =>
                 out[i].avg_power =
                    Field(Sum(SamplesBefore(in, i)) \div Len(SamplesBefore(in, i)))

\* the output holds the non-lap messages of the input, in their order
CleanedKeepsNonLap ==
    fit_ret = "True" =>
        LET in == NonLap(fit_src)
            out == fit_dst.records
        IN  /\ fit_dst.exists /\ fit_dst.complete
            /\ Len(out) = Len(in)
            /\ \A i \in 1..Len(out) :
                  /\ out[i].kind # "lap"
                  /\ out[i].kind = in[i].kind
                  /\ out[i].power = in[i].power
                  /\ out[i].kind # "session" => out[i] = in[i]
                  /\ ~Falsy(in[i].avg_power) => out[i] = in[i]

\* C14: for a well-formed input the output holds every non-lap message of
\* the input in the original order and no lap message, and the source file
\* is not changed.
C14_NonLapRecordsKeptInOrder ==
    /\ []CleanedKeepsNonLap
    /\ [][fit_src' = fit_src]_vars

\* a file with a lap message between other messages was cleaned
C14_Witness ==
    /\ fit_ret = "True"
    /\ \E i \in 2..(Len(fit_src) - 1) : fit_src[i].kind = "lap"
    /\ Len(fit_dst.records) < Len(fit_src)
    /\ Len(fit_dst.records) > 1

FailureCleansUp ==
    /\ fit_fault # "none" => fit_ret = "False"
    /\ (fit_ret = "False" /\ fit_fault # "write_partial_unlink_failed") =>
          ~fit_dst.exists

Ended(i) == task[i].st \in {"done", "collected"}

\* C16: an upload whose refresh_session failed at the head of a pass ended
\* at once as a failure: nothing was submitted in that pass, no pass
\* follows, and once collected the file is Failed with no ledger entry.
C16_RefreshFailureFailsFile ==
    \A i \in DOMAIN up_hist :
        up_hist[i].refused =>
           /\ Ended(i)
           /\ ~task[i].success
           /\ up_hist[i].passes = up_hist[i].subs + 1
           /\ up_hist[i].subs = task[i].attempt
           /\ task[i].st = "collected" =>
                 /\ results[i] = FALSE
                 /\ i \notin marked
                 /\ KeyOf(file_infos[i]) \notin DOMAIN Ledger

\* the refresh failed in the second pass, after one submission, and the
\* file was collected as failed
C16_Witness ==
    \E i \in DOMAIN up_hist :
        /\ up_hist[i].refused
        /\ up_hist[i].subs = 1
        /\ task[i].st = "collected"
        /\ results[i] = FALSE
        /\ stats.failed > 0

\* C17: an upload answered Unauthorized ended as a failure, and every file
\* whose first pass began after that answer ends Failed without having been
\* submitted.
C17_UnauthorizedStopsLaterFiles ==
    /\ \A i \in DOMAIN up_hist :
          up_hist[i].unauth => (Ended(i) /\ ~task[i].success)
    /\ \A i \in DOMAIN up_hist :
          up_hist[i].late =>
             /\ up_hist[i].subs = 0
             /\ Ended(i) => ~task[i].success

\* C18: rate-limit answers alone do not fail a file: an upload that got
\* nothing but rate-limit answers has not ended after MAX_RETRY_ATTEMPTS
\* submissions.
C18_RateLimitKeepsRetrying ==
    \A i \in DOMAIN up_hist :
        (Ended(i) /\ up_hist[i].only429 /\ up_hist[i].subs > 0
            /\ ~up_hist[i].refused) =>
           up_hist[i].subs > MAX_RETRY_ATTEMPTS

\* C19: when the batch is over every selected file has an entry in the
\* result mapping and is counted in total; a file whose transform failed
\* has a False entry and is counted in failed.
C19_EverySelectedFileAccounted ==
    up_pc = "posted" =>
        /\ Cardinality(DOMAIN results) = Len(selected_files)
        /\ stats.total = Len(selected_files)

\* C20: when upload_files has returned, success + duplicates + failed equals
\* total and total is the number of files submitted.
C20_StatsAddUp ==
    up_pc = "posted" =>
        /\ stats.total = Len(batch)
        /\ stats.success + stats.duplicates + stats.failed = stats.total


----------------------------------------------------------------------------
(* Progress reports of upload_files *)

\* a / b < c / d for fractions with positive denominators
FracLess(p, q) == p[1] * q[2] < q[1] * p[2]

Collected == {i \in DOMAIN task : task[i].st = "collected"}

ProgressFollowsCompletion ==
    /\ Len(progress) = Cardinality(Collected)
    /\ \A k \in 1..(Len(progress) - 1) : FracLess(progress[k], progress[k + 1])
    /\ (up_pc = "posted" /\ batch # <<>>) =>
          /\ Len(progress) = Len(batch)
          /\ progress[Len(progress)][1] = 100 * progress[Len(progress)][2]
    /\ \A i \in DOMAIN task :
          task[i].st = "submitting" => ENABLED Response(i)

\* C21: upload_files calls the progress callback once for every completed
\* file and at no other step (never for an attempt), the percentages are
\* strictly increasing, the last one of a batch is 100, and a worker
\* waiting for the transport can always go on however many reports were
\* made
C21_ProgressOncePerFile ==
    /\ []ProgressFollowsCompletion
    /\ [][progress' # progress =>
            \E i \in DOMAIN task :
               /\ task[i].st = "done"
               /\ task'[i].st = "collected"
               /\ task' = [task EXCEPT ![i].st = "collected"]
               /\ progress' = Append(progress, <<100 * Cardinality(Collected'),
                                                 Len(batch)>>)]_vars

\* a batch of three files is finished: three reports, after uploads that
\* needed more than three attempts together
C21_Witness ==
    /\ up_pc = "posted"
    /\ Len(progress) = 3
    /\ \E i \in DOMAIN task : task[i].attempt = MAX_RETRY_ATTEMPTS
    /\ \E i \in DOMAIN task : task[i].success

----------------------------------------------------------------------------
(* Size of the worker pool *)

\* uploads a pool thread is working on
InFlight == {i \in DOMAIN task : task[i].st \in {"running", "submitting", "resuming"}}

\* C22: never more uploads in flight than the smaller of the configured
\* number of concurrent uploads (settings) and the number of processors
C22_InFlightWithinConfiguredLimit ==
    Cardinality(InFlight) <=
        Min(config_get(config, "max_concurrent_uploads", MAX_CONCURRENT_UPLOADS),
            CpuCount)

----------------------------------------------------------------------------
(* mark_as_new and the catalog over several sources *)

NamesOf(seq) == [i \in 1..Len(seq) |-> seq[i].name]

\* the tree shows the records of file_infos
TreeInSync == tree = NamesOf(SortedDesc(file_infos))

\* the record displayed in a row of the tree
RowRecord(row) == SortedDesc(file_infos)[row]

----------------------------------------------------------------------------
(* Freshness of the located sources *)

\* C25: refresh_sources displays the producer directories that exist at
\* that moment, and once the cached sources are older than the interval a
\* call of get_available_sources sees the directories that exist then
C25_RefreshSeesCurrentDirectories ==
    /\ [][lastOp'.op = "refresh_sources" => sources_label' = Probe(dirs)]_vars
    /\ [][(~locator.fresh /\ locator'.fresh) => locator'.cache = Probe(dirs)]_vars

----------------------------------------------------------------------------
(* Age of the scan cache *)

\* a step of _scan_thread: scan_files_async, then _update_files_ui queued
ScanStep == ui_queue' = Append(ui_queue, "update_files_ui")

\* the variables agree: cache_fresh is the test of the code on the age
CacheFreshIsTest == cache_fresh = CacheTest(cache_age)

\* C26: a scan at a moment when the cache is SCAN_CACHE_DURATION seconds
\* old or older, whatever the number of days, scans the sources again
C26_NoCachedResultOlderThanDuration ==
    [][(ScanStep /\ cache_age >= SCAN_CACHE_DURATION)
          => /\ cache_age' = 0
             /\ file_infos' = ScanDisk(Ledger)]_vars

----------------------------------------------------------------------------
(* Settings across a restart *)

\* C27: a setting stored with set and saved is there after the restart:
\* get returns the value for every key the application stores
C27_StoredSettingsSurviveRestart ==
    [][lastOp'.op = "restart" =>
          \A key \in StoredKeys \cap DOMAIN config :
             config_get(config', key, JNull) = config[key]]_vars

----------------------------------------------------------------------------
(* Clean shutdown *)

\* C28: once on_closing has cancelled the auto-scan timer no scan timer is
\* armed any more, and when its forced save returns without an error the
\* settings file holds the settings that were in memory, dirty or not
C28_ShutdownStopsTimerThenSaves ==
    /\ [](close_pc # "running" => scan_timer # "armed")
    /\ [][(close_pc = "saving" /\ save_pc = "replaced" /\ save_pc' = "idle")
            => fs'[CONFIG_FILE] = Complete(close_doc)]_vars

----------------------------------------------------------------------------
(* The ledger and the lock of the store *)

\* C29: the ledger does not change while a save holds the lock of the
\* store, so no save serialises a ledger that is being changed, and the
\* set that ends mark_file_processed puts back the ledger as it is stored,
\* so it undoes no update of another thread
C29_LedgerChangesOnlyUnderLock ==
    /\ [][~LockFree /\ save_pc' # "idle" => Ledger' = Ledger]_vars
    /\ [][mk.pc = "put" /\ mk'.pc = "none" => Ledger' = Ledger]_vars

----------------------------------------------------------------------------
(* Workers of the pool *)

\* C30: a worker at the head of a pass of its retry loop can always go on
\* with refresh_session, and a worker that has submitted can always take
\* the response, whatever call the other workers are suspended in
C30_SuspendedWorkerBlocksNoOther ==
    \A i \in DOMAIN task :
        /\ (Alive /\ up_pc = "collect" /\ task[i].st = "running")
              => ENABLED AttemptRefresh(i)
        /\ (Alive /\ up_pc = "collect" /\ task[i].st = "submitting")
              => ENABLED Response(i)

----------------------------------------------------------------------------
(* Termination of a batch *)

\* upload_files has returned
UploadReturned == up_pc = "posted"

\* C31: whatever the transport answers, no file is submitted more than
\* MAX_RETRY_ATTEMPTS times; upload_files returns, and when it has returned
\* the result mapping holds an outcome for every file it was given
C31_BoundedRetriesAndTermination ==
    /\ [](\A i \in DOMAIN up_hist : up_hist[i].subs <= MAX_RETRY_ATTEMPTS)
    /\ [](UploadReturned => DOMAIN results = DOMAIN batch)
    /\ <>UploadReturned

\* a batch has returned in which one file was answered by rate limits only
\* and was submitted MAX_RETRY_ATTEMPTS times
C31_Witness ==
    /\ UploadReturned
    /\ \E i \in DOMAIN up_hist :
          /\ up_hist[i].subs = MAX_RETRY_ATTEMPTS
          /\ up_hist[i].only429
          /\ results[i] = FALSE

----------------------------------------------------------------------------
(* Averages per session *)

\* the positions of the session messages of a file
Sessions(records) == {i \in 1..Len(records) : records[i].kind = "session"}

\* C32: the samples are reset after every session message, substituted or
\* not: the average put into a session message is the one _calculate_avg
\* gives for the samples between the previous session message and it
C32_AveragePerSession ==
    fit_ret = "True" =>
        LET in == NonLap(fit_src)
            out == fit_dst.records
        IN  \A i \in Sessions(in) :
              (Falsy(in[i].avg_power) /\ SamplesBefore(in, i) # <<>>) =>
                 out[i].avg_power = Field(_calculate_avg(SamplesBefore(in, i)))

\* a file with two sessions was cleaned: the first session kept its own
\* average and was preceded by a sample of 200, the second got the average
\* of its own block
C32_Witness ==
    /\ fit_ret = "True"
    /\ LET in == NonLap(fit_src)
           out == fit_dst.records
       IN  \E i, j \in Sessions(in) :
              /\ i < j
              /\ ~Falsy(in[i].avg_power)
              /\ out[i] = in[i]
              /\ \E k \in 1..(i - 1) : in[k].power = Field(200)
              /\ Falsy(in[j].avg_power)
              /\ out[j].avg_power = Field(100)

----------------------------------------------------------------------------
(* The connection flag *)

\* refresh_session returns False to the worker of task i in this step
RefreshRefuses(i) == up_hist'[i].refused /\ ~up_hist[i].refused

\* C33: when refresh_session returns False the manager is not connected
\* afterwards, and it becomes connected only by a token resume that
\* succeeded, so a connected manager has not failed its last session check
C33_ConnectedMeansSessionChecked ==
    [][/\ \A i \in DOMAIN up_hist : RefreshRefuses(i) => ~connected'
       /\ (connected' /\ ~connected) =>
             \E i \in DOMAIN task : /\ task[i].st = "resuming"
                                    /\ task'[i].st = AfterRefresh(TRUE)]_vars

----------------------------------------------------------------------------
(* The files handed to the upload thread *)

\* start_upload goes past its three tests in this step
UploadStarts == is_processing' /\ ~is_processing

----------------------------------------------------------------------------
(* The summary of a batch *)

\* _post_upload runs in this step
SummaryShown == is_processing /\ ~is_processing' /\ up_pc = "posted"

\* C35: the statistics _post_upload reads describe the batch that has just
\* ended: total is the number of files handed to upload_files, also when
\* that list was empty
C35_SummaryDescribesThisBatch ==
    [][SummaryShown => stats.total = Len(batch)]_vars

----------------------------------------------------------------------------
(* The processed flag of a scan *)

\* C36: every FileInfo a scan returns has processed equal to
\* is_file_processed against the ledger at the time of the scan, so the
\* scan after an upload reports the uploaded file as processed
C36_ScanFlagsFollowLedger ==
    [][ScanStep =>
         \A i \in DOMAIN file_infos' :
            file_infos'[i].processed = is_file_processed(Ledger, file_infos'[i])]_vars

----------------------------------------------------------------------------
(* One batch at a time *)

\* C37: a batch starts only when no upload thread of an earlier batch is
\* there, and after a batch has started is_processing is reset to False
C37_OneBatchAndAlwaysReset ==
    /\ [][UploadStarts => up_pc = "idle"]_vars
    /\ (is_processing ~> ~is_processing)

\* on_closing reaches its disconnect and destroys the window
ClosedCleanly == close_pc = "saving" /\ close_pc' = "closed"

\* C38: a token saved by a successful authenticate is still on disk after
\* a clean close of the application (on_closing), so the next start can
\* resume the session; the token is removed only by a logout, by a new
\* login or by a resume that failed
C38_TokenSurvivesCleanClose ==
    /\ [][ClosedCleanly => token' = token]_vars
    /\ [][(token /\ ~token')
            => \/ close_pc = "running" /\ UNCHANGED close_pc
               \/ close_pc = "closed" /\ close_pc' = "running"]_vars

\* a run of upload_files starts: cleanup_and_save_fit_files has run
LegacyRunStarts == legacy.pc = "idle" /\ legacy'.run = legacy.run + 1

\* C39: in the legacy pipeline a source file whose upload failed is not
\* treated as already processed at the next run of upload_files, and a
\* file whose upload succeeded or was answered 409 is skipped
C39_LegacyRetriesFailedUploads ==
    [][LegacyRunStarts =>
         \A k \in 1..Len(LegacyFiles) :
            /\ legacy.last[k] \in {"http", "error"}
                  => LegacyFiles[k] \notin legacy'.skipped
            /\ legacy.last[k] \in {"ok", "409"}
                  => LegacyFiles[k] \in legacy'.skipped]_vars

=============================================================================
